---- MODULE Spec2Model ----
(***************************************************************************)
(* A model of the ejdb.rs bindings: the transaction guard of a collection  *)
(* (src/src/database/tx.rs), Collection::save_all                          *)
(* (src/src/database/mod.rs), and the Query / QueryHints builders          *)
(* (src/src/database/query.rs).                                            *)
(*                                                                         *)
(* The native EJDB library is the environment: every native call returns   *)
(* a result chosen nondeterministically.                                   *)
(***************************************************************************)
EXTENDS Integers, Sequences, FiniteSets, TLC

VARIABLES
    \* ---- transaction guard (tx.rs) ----
    tx_state,     \* "none": no guard yet; "live": a guard exists; "dropped": it is gone
    tx,           \* the fields of struct Transaction: [commit, finished]
    api_log,      \* the calls made on the current guard, oldest first
    tx_native,    \* the native commit/abort calls issued for the current guard
    begin_native, \* what ejdbtranbegin returned to the last begin_transaction(): "none", "true", "false"
    begin_ret,    \* what the last begin_transaction() returned: "none", "Ok", "Err"
    tx_ret,       \* what the last commit()/abort()/finish() returned: "none", "Ok", "Err"
    tx_budget     \* API calls the run may still make

txVars == <<tx_state, tx, api_log, tx_native, begin_native, begin_ret, tx_ret, tx_budget>>

VARIABLES
    \* ---- Collection::save_all (mod.rs) ----
    sa_pc,        \* "idle", "loop" (inside the for loop), "done" (save_all has returned)
    sa_docs,      \* the documents given to save_all, in iteration order
    sa_i,         \* index of the next document the loop takes
    sa_result,    \* the local Vec `result`
    sa_ret,       \* what save_all returned: [kind, ids]
    save_calls,   \* the calls of Collection::save made by this save_all: [doc, ok, id]
    next_oid      \* the next identifier the native library generates

saveVars == <<sa_pc, sa_docs, sa_i, sa_result, sa_ret, save_calls, next_oid>>

VARIABLES
    \* ---- Query builder (query.rs) ----
    q,            \* Query.query: the BSON document built so far
    fc,           \* the FieldConstraint chain being built, outermost link first; <<>> in a Query
    q_log,        \* the builder calls made so far, oldest first
    q_budget      \* builder calls the run may still make

queryVars == <<q, fc, q_log, q_budget>>

VARIABLES
    \* ---- QueryHints builder (query.rs) ----
    h,            \* QueryHints.hints: the BSON document built so far
    h_pending,    \* the QueryHintsOrderBy / QueryHintsField being held: [kind, f]
    h_panic,      \* TRUE once add_hint has reached unreachable!()
    h_log,        \* the completed hint calls, oldest first: [m, f, n]
    h_budget      \* method calls the run may still make

hintVars == <<h, h_pending, h_panic, h_log, h_budget>>

VARIABLES
    \* ---- Collection::save / Collection::load on one collection (mod.rs) ----
    store,        \* the records of the collection: a function from id to document
    ecode,        \* the native handle's last error code (0: none)
    st_next_oid,  \* the next identifier the native library generates
    st_log,       \* the calls made: [op, d, id, native_ok, codec_ok, ok, some, doc]
    st_budget     \* calls the run may still make

storeVars == <<store, ecode, st_next_oid, st_log, st_budget>>

VARIABLES
    \* ---- Index builder (indices.rs) ----
    idx_flags,    \* Index.flags: [some, bits], bits the set of flag bits or-ed in
    idx_log,      \* the methods called on the builder, oldest first
    idx_out,      \* how the consuming method ended: "none", "panic", "ok", "err"
    idx_native,   \* the flags of every ejdbsetindex call made
    idx_budget    \* type calls the builder may still take

indexVars == <<idx_flags, idx_log, idx_out, idx_native, idx_budget>>

VARIABLES
    \* ---- PreparedQuery and QueryResult (mod.rs) ----
    pq_pc,        \* "prepared" (Collection::query returned), "returned" (consumed)
    pq_log_out,   \* PreparedQuery.log_out is Some
    pq_method,    \* the consuming method called: "count", "update", "find_one", "find"
    pq_native_ok, \* whether the native execution of that call succeeded
    pq_ret,       \* what execute returned: [ok, stage, count]
    pq_events,    \* the steps execute took, in order
    log_target,   \* the writes the log target has received
    qr,           \* the QueryResult of find(): [live, len, current, total]
    qr_yield,     \* what its next() calls returned: "item", "err" or "none"
    qr_budget,    \* next() calls that may still be made
    pq_made,      \* non-null result lists ejdbqryexecute has returned
    pq_disposed   \* ejdbqresultdispose calls made on such lists

pqVars == <<pq_pc, pq_log_out, pq_method, pq_native_ok, pq_ret, pq_events,
            log_target, qr, qr_yield, qr_budget,
           pq_made, pq_disposed>>

VARIABLES
    \* ---- ejdb-bson builder and iterator (ejdb-bson/src/lib.rs) ----
    bb,           \* the elements of the native document being built
    bb_log,       \* the append_* calls made: [m, key, sub, v]
    bb_panic,     \* where the program panicked: "", "append" or "iter"
    bb_iterated,  \* iter() has been run to its end (or to a panic)
    bb_items,     \* the (key, item) pairs iter() yielded: [key, variant, sub, v]
    bb_budget     \* append_* calls that may still be made

bbVars == <<bb, bb_log, bb_panic, bb_iterated, bb_items, bb_budget>>

VARIABLES
    \* ---- OidHexDisplay (types.rs) ----
    oid_in,       \* the 12 bytes of the ObjectId being displayed
    oid_text,     \* the characters written to the formatter, in order
    oid_done      \* fmt has returned

oidVars == <<oid_in, oid_text, oid_done>>

VARIABLES
    \* ---- EjdbObjectId (ejdb_bson.rs) ----
    cast_in,      \* the 12 bytes the conversions started from
    cast_cur,     \* the 12 bytes of the current value
    cast_kind,    \* "rust": cast_cur is an ObjectId ([u8; 12]); "ejdb": an EjdbObjectId ([i8; 12])
    cast_steps    \* the conversions made so far

castVars == <<cast_in, cast_cur, cast_kind, cast_steps>>

VARIABLES
    \* ---- Database (mod.rs) ----
    db_live,      \* a Database value is held (open_with_mode returned Ok, not yet dropped)
    db_new,       \* native handles ejdbnew has allocated
    db_del,       \* ejdbdel calls made
    db_log,       \* the open_with_mode calls made: [path, new_ok, open_ok, ret]
    db_budget     \* open_with_mode calls that may still be made

dbVars == <<db_live, db_new, db_del, db_log, db_budget>>

VARIABLES
    \* ---- BsonBinaryType (ejdb-bson lib.rs) ----
    bin_pc,       \* "idle", "stored" (a subtype byte is written), "read" (it was read back)
    bin_t,        \* the BsonBinaryType the entry was appended with
    bin_code,     \* the subtype byte stored for it (an i8)
    bin_log,      \* the round trips made: [t, code, back]
    bin_budget    \* round trips that may still be started

binVars == <<bin_pc, bin_t, bin_code, bin_log, bin_budget>>

vars == <<txVars, saveVars, queryVars, hintVars, storeVars, indexVars, pqVars, bbVars,
          oidVars, castVars, dbVars, binVars>>

\* ------------------------------------------------------------------------
\* Bounds
\* ------------------------------------------------------------------------
MaxTxOps == 6
MaxUpdateCalls == 3   \* builder calls in a run of the update operators
MaxFieldCalls == 6    \* builder calls in a run of the field constraints
MaxChain == 3         \* links of one FieldConstraint chain
MaxHintCalls == 6     \* method calls in a run of the hints builder
MaxStoreOps == 3      \* save/load calls in a run on the collection
MaxIndexCalls == 3    \* string/number/array calls on one Index builder
MaxItems == 2         \* records a native query execution may match
MaxNext == 4          \* next() calls on one QueryResult
MaxAppends == 2       \* append_* calls on one ejdb-bson builder
MaxStride == 3
MaxCasts == 2
MaxOpens == 3
MaxBinTrips == 3        \* the ObjectIds displayed: byte j is (first + stride * j) % 256
MaxHintFromCalls == 4 \* method calls in a run on hints made from a document
MaxSetCalls == 3
MaxLogicCalls == 3      \* builder calls in a run of set/set_many/upsert/upsert_many
MaxDocs == 3     \* longest input of save_all
NumOids == 2     \* distinct caller-supplied _id values

\* ------------------------------------------------------------------------
\* Transactions: src/src/database/tx.rs
\* ------------------------------------------------------------------------

\* Transaction::new: the guard is built with commit = false, finished = false.
\* `native` is the value ejdbtranbegin returned.
Transaction_new(native) ==
    IF native
    THEN [ret |-> "Err", t |-> [commit |-> FALSE, finished |-> FALSE], made |-> FALSE]
    ELSE [ret |-> "Ok",  t |-> [commit |-> FALSE, finished |-> FALSE], made |-> TRUE]

\* commit_mut as it would be if it left the finished flag alone.
commit_mut_unmarked(t, native) ==
    [t     |-> t,
     calls |-> <<"commit">>,
     ret   |-> IF native THEN "Ok" ELSE "Err"]

\* Transaction::commit_mut: marks the guard finished and calls ejdbtrancommit.
commit_mut(t, native) ==
    [t     |-> [t EXCEPT !.finished = TRUE],
     calls |-> <<"commit">>,
     ret   |-> IF native THEN "Ok" ELSE "Err"]

\* Transaction::abort_mut: marks the guard finished and calls ejdbtranabort.
abort_mut(t, native) ==
    [t     |-> [t EXCEPT !.finished = TRUE],
     calls |-> <<"abort">>,
     ret   |-> IF native THEN "Ok" ELSE "Err"]

\* finish_mut as it would be with the commit flag ignored.
finish_mut_ignoring_flag(t, native) ==
    IF t.finished
    THEN [t |-> t, calls |-> <<>>, ret |-> "Ok"]
    ELSE abort_mut(t, native)

\* Transaction::finish_mut: nothing when finished, else commit or abort by the flag.
finish_mut(t, native) ==
    IF t.finished
    THEN [t |-> t, calls |-> <<>>, ret |-> "Ok"]
    ELSE IF t.commit THEN commit_mut(t, native) ELSE abort_mut(t, native)

\* Drop for Transaction: finish_mut with the result ignored.
Transaction_drop(t, native) == finish_mut(t, native)

TxInit ==
    /\ tx_state = "none"
    /\ tx = [commit |-> FALSE, finished |-> FALSE]
    /\ api_log = <<>>
    /\ tx_native = <<>>
    /\ begin_native = "none"
    /\ begin_ret = "none"
    /\ tx_ret = "none"
    /\ tx_budget = MaxTxOps

\* Collection::begin_transaction(): Transaction::new(self).
BeginTransaction ==
    /\ tx_state \in {"none", "dropped"}
    /\ tx_budget > 0
    /\ \E native \in BOOLEAN :
         LET r == Transaction_new(native) IN
           /\ begin_native' = IF native THEN "true" ELSE "false"
           /\ begin_ret' = r.ret
           /\ tx_state' = IF r.made THEN "live" ELSE "none"
           /\ tx' = r.t
    /\ api_log' = <<>>
    /\ tx_native' = <<>>
    /\ tx_ret' = "none"
    /\ tx_budget' = tx_budget - 1

\* Transaction::set_commit()
SetCommit ==
    /\ tx_state = "live"
    /\ tx_budget > 0
    /\ tx' = [tx EXCEPT !.commit = TRUE]
    /\ api_log' = Append(api_log, "set_commit")
    /\ tx_budget' = tx_budget - 1
    /\ UNCHANGED <<tx_state, tx_native, begin_native, begin_ret, tx_ret>>

\* Transaction::set_abort()
SetAbort ==
    /\ tx_state = "live"
    /\ tx_budget > 0
    /\ tx' = [tx EXCEPT !.commit = FALSE]
    /\ api_log' = Append(api_log, "set_abort")
    /\ tx_budget' = tx_budget - 1
    /\ UNCHANGED <<tx_state, tx_native, begin_native, begin_ret, tx_ret>>

\* A consuming call (commit(self), abort(self), finish(self)): the method body
\* runs, then the guard goes out of scope and Drop::drop runs on it.
Consume(name, r, dropNative) ==
    LET d == Transaction_drop(r.t, dropNative) IN
      /\ tx' = d.t
      /\ tx_native' = tx_native \o r.calls \o d.calls
      /\ tx_ret' = r.ret
      /\ api_log' = Append(api_log, name)
      /\ tx_state' = "dropped"
      /\ tx_budget' = tx_budget - 1
      /\ UNCHANGED <<begin_native, begin_ret>>

\* Transaction::commit(self)
Commit ==
    /\ tx_state = "live"
    /\ tx_budget > 0
    /\ \E n1, n2 \in BOOLEAN : Consume("commit", commit_mut(tx, n1), n2)

\* Transaction::abort(self)
Abort ==
    /\ tx_state = "live"
    /\ tx_budget > 0
    /\ \E n1, n2 \in BOOLEAN : Consume("abort", abort_mut(tx, n1), n2)

\* Transaction::finish(self)
Finish ==
    /\ tx_state = "live"
    /\ tx_budget > 0
    /\ \E n1, n2 \in BOOLEAN : Consume("finish", finish_mut(tx, n1), n2)

\* The guard goes out of scope without a consuming call: Drop::drop alone.
Drop ==
    /\ tx_state = "live"
    /\ tx_budget > 0
    /\ \E n \in BOOLEAN :
         LET d == Transaction_drop(tx, n) IN
           /\ tx' = d.t
           /\ tx_native' = tx_native \o d.calls
    /\ api_log' = Append(api_log, "drop")
    /\ tx_state' = "dropped"
    /\ tx_budget' = tx_budget - 1
    /\ UNCHANGED <<begin_native, begin_ret, tx_ret>>

\* ------------------------------------------------------------------------
\* Collection::save and Collection::save_all: src/src/database/mod.rs
\* ------------------------------------------------------------------------

\* A document of the input: oid = 0 when it carries no ObjectId `_id`.
Docs == [oid : 0..NumOids]

DocSeqs == UNION {[1..n -> Docs] : n \in 0..MaxDocs}

\* Collection::save(doc): EjdbBsonDocument::from_bson may fail (try!), then
\* ejdbsavebson reports success or failure; on success the id written to out_id
\* is returned (the document's own _id, or one the library generated).
save(doc, enc_ok, native_ok, fresh) ==
    IF ~enc_ok THEN [ok |-> FALSE, id |-> 0]
    ELSE IF native_ok
         THEN [ok |-> TRUE, id |-> IF doc.oid # 0 THEN doc.oid ELSE fresh]
         ELSE [ok |-> FALSE, id |-> 0]

\* The loop body as it would be if a failed save were skipped instead of
\* ending the loop.
save_all_match_skipping(result, r) ==
    IF r.ok
    THEN [returned |-> FALSE, result |-> Append(result, r.id),
          ret |-> [kind |-> "none", ids |-> <<>>]]
    ELSE [returned |-> FALSE, result |-> result,
          ret |-> [kind |-> "none", ids |-> <<>>]]

\* The body of save_all's for loop on the outcome r of self.save(doc):
\* Ok(id) pushes the id, Err(e) returns PartialSave with the ids so far.
save_all_match(result, r) ==
    IF r.ok
    THEN [returned |-> FALSE, result |-> Append(result, r.id),
          ret |-> [kind |-> "none", ids |-> <<>>]]
    ELSE [returned |-> TRUE, result |-> result,
          ret |-> [kind |-> "PartialSave", ids |-> result]]

SaveInit ==
    /\ sa_pc = "idle"
    /\ sa_docs = <<>>
    /\ sa_i = 1
    /\ sa_result = <<>>
    /\ sa_ret = [kind |-> "none", ids |-> <<>>]
    /\ save_calls = <<>>
    /\ next_oid = NumOids + 1

\* save_all(docs) is entered: let mut result = Vec::new().
SaveAllCall ==
    /\ sa_pc = "idle"
    /\ \E docs \in DocSeqs : sa_docs' = docs
    /\ sa_pc' = "loop"
    /\ sa_i' = 1
    /\ sa_result' = <<>>
    /\ UNCHANGED <<sa_ret, save_calls, next_oid>>

\* One iteration of `for doc in docs`: self.save(doc.borrow()) and the match.
SaveAllIterate ==
    /\ sa_pc = "loop"
    /\ sa_i <= Len(sa_docs)
    /\ \E enc_ok, native_ok \in BOOLEAN :
         LET doc == sa_docs[sa_i]
             r   == save(doc, enc_ok, native_ok, next_oid)
             m   == save_all_match(sa_result, r)
         IN /\ save_calls' = Append(save_calls, [doc |-> sa_i, ok |-> r.ok, id |-> r.id])
            /\ next_oid' = IF r.ok /\ doc.oid = 0 THEN next_oid + 1 ELSE next_oid
            /\ sa_result' = m.result
            /\ sa_ret' = m.ret
            /\ sa_pc' = IF m.returned THEN "done" ELSE "loop"
            /\ sa_i' = sa_i + 1
    /\ UNCHANGED sa_docs

\* The iterator is exhausted: Ok(result).
SaveAllReturn ==
    /\ sa_pc = "loop"
    /\ sa_i > Len(sa_docs)
    /\ sa_ret' = [kind |-> "Ok", ids |-> sa_result]
    /\ sa_pc' = "done"
    /\ UNCHANGED <<sa_docs, sa_i, sa_result, save_calls, next_oid>>

\* ------------------------------------------------------------------------
\* BSON values and documents (bson::Bson, bson::Document)
\* ------------------------------------------------------------------------

\* A Bson value is a record [t, i, s, d]: the variant t, and the payload in i
\* (numbers, booleans as 0/1), s (strings) or d (documents and arrays). A
\* Document is a sequence of <<key, value>> pairs in insertion order; an array
\* is kept the same way with the empty key.
I32(n)  == [t |-> "i32",  i |-> n, s |-> "", d |-> <<>>]
I64(n)  == [t |-> "i64",  i |-> n, s |-> "", d |-> <<>>]
Str(x)  == [t |-> "str",  i |-> 0, s |-> x,  d |-> <<>>]
Bool(b) == [t |-> "bool", i |-> IF b THEN 1 ELSE 0, s |-> "", d |-> <<>>]
Doc(ps) == [t |-> "doc",  i |-> 0, s |-> "", d |-> ps]
Arr(vs) == [t |-> "arr",  i |-> 0, s |-> "", d |-> [j \in DOMAIN vs |-> <<"", vs[j]>>]]

DocNew == <<>>

DocKeys(d) == {d[j][1] : j \in DOMAIN d}

contains_key(d, k) == k \in DocKeys(d)

\* Document::get: the value at key k (k is present).
DocGet(d, k) == d[CHOOSE j \in DOMAIN d : d[j][1] = k][2]

\* Document::insert as the builders call it: the entry of an existing key is
\* replaced and becomes the newest entry, a new key is appended.
DocInsert(d, k, v) == Append(SelectSeq(d, LAMBDA e : e[1] # k), <<k, v>>)

\* Writing through the &mut Bson that Document::get_mut returned: the value
\* at k changes where it stands.
DocSetAt(d, k, v) == [j \in DOMAIN d |-> IF d[j][1] = k THEN <<k, v>> ELSE d[j]]

\* `for (k, v) in v.into() { d.insert(k, v); }`
RECURSIVE DocInsertAll(_, _)
DocInsertAll(d, ps) ==
    IF ps = <<>> THEN d
    ELSE DocInsertAll(DocInsert(d, ps[1][1], ps[1][2]), Tail(ps))

\* ------------------------------------------------------------------------
\* Query: src/src/database/query.rs
\* ------------------------------------------------------------------------

\* Query::modify_document_at_key: when the value at `key` is a document,
\* on_document works on that document in place; otherwise on_something_else
\* works on the query document itself. on_document stands for the document
\* the first closure leaves at `key`, on_something_else for the query
\* document the second closure leaves; only the one chosen is evaluated.
modify_document_at_key(qd, key, on_document, on_something_else) ==
    IF contains_key(qd, key) /\ DocGet(qd, key).t = "doc"
    THEN DocSetAt(qd, key, Doc(on_document))
    ELSE on_something_else

\* add_subkey_at_key as it would be if it always built a fresh sub-document.
add_subkey_at_key_fresh(qd, key, subkey, value) ==
    DocInsert(qd, key, Doc(<< <<subkey, value>> >>))

\* add_subkey_at_key as it would be if a sub-key already present kept its
\* first value.
add_subkey_at_key_keeping(qd, key, subkey, value) ==
    IF contains_key(qd, key) /\ DocGet(qd, key).t = "doc"
    THEN IF contains_key(DocGet(qd, key).d, subkey)
         THEN qd
         ELSE DocSetAt(qd, key, Doc(Append(DocGet(qd, key).d, <<subkey, value>>)))
    ELSE DocInsert(qd, key, Doc(<< <<subkey, value>> >>))

\* Query::add_subkey_at_key
add_subkey_at_key(qd, key, subkey, value) ==
    modify_document_at_key(qd, key,
        DocInsert(DocGet(qd, key).d, subkey, value),
        DocInsert(qd, key, Doc(<< <<subkey, value>> >>)))

\* merge_documents_at_key as it would be if it replaced the value at the key.
merge_documents_at_key_replacing(qd, key, document) == DocInsert(qd, key, Doc(document))

\* Query::merge_documents_at_key
merge_documents_at_key(qd, key, document) ==
    modify_document_at_key(qd, key,
        DocInsertAll(DocGet(qd, key).d, document),
        DocInsert(qd, key, Doc(document)))

\* The update-operator builders, each as the document it returns.
Query_join(qd, key, coll) == add_subkey_at_key(qd, "$do", key, Doc(<< <<"$join", Str(coll)>> >>))
Query_add_to_set(qd, key, value) == add_subkey_at_key(qd, "$addToSet", key, value)
Query_add_to_set_all(qd, key, values) == add_subkey_at_key(qd, "$addToSet", key, Arr(values))
Query_unset(qd, key) == add_subkey_at_key(qd, "$unset", key, Str(""))
Query_inc(qd, key, delta) == add_subkey_at_key(qd, "$inc", key, delta)
Query_set(qd, key, value) == add_subkey_at_key(qd, "$set", key, value)
\* set_many as it would be if it merged into the existing $set document.
Query_set_many_merging(qd, document) == merge_documents_at_key(qd, "$set", document)

Query_set_many(qd, document) == DocInsert(qd, "$set", Doc(document))
Query_upsert(qd, key, value) == add_subkey_at_key(qd, "$upsert", key, value)
Query_upsert_many(qd, document) == DocInsert(qd, "$upsert", Doc(document))
Query_pull(qd, key, value) == add_subkey_at_key(qd, "$pull", key, value)
Query_pull_all(qd, key, values) == add_subkey_at_key(qd, "$pullAll", key, Arr(values))
Query_push(qd, key, value) == add_subkey_at_key(qd, "$push", key, value)
Query_push_all(qd, key, values) == add_subkey_at_key(qd, "$pushAll", key, Arr(values))
Query_rename(qd, key, new_key) == add_subkey_at_key(qd, "$rename", key, Str(new_key))
Query_slice(qd, key, limit) ==
    add_subkey_at_key(qd, "$do", key, Doc(<< <<"$slice", I64(limit)>> >>))
Query_slice_with_offset(qd, key, offset, limit) ==
    add_subkey_at_key(qd, "$do", key, Doc(<< <<"$slice", Arr(<<I64(offset), I64(limit)>>)>> >>))

\* `queries.into_iter().map(|v| v.into().into()).collect::<Vec<Bson>>()`: each
\* sub-query becomes its Document, wrapped as Bson::Document, in the order given.
collect_queries(queries) == Arr([j \in DOMAIN queries |-> Doc(queries[j])])

\* Query::and as it would be if it extended an array already stored at $and.
Query_and_appending(qd, queries) ==
    IF contains_key(qd, "$and") /\ DocGet(qd, "$and").t = "arr"
    THEN DocSetAt(qd, "$and",
             [t |-> "arr", i |-> 0, s |-> "",
              d |-> DocGet(qd, "$and").d \o collect_queries(queries).d])
    ELSE DocInsert(qd, "$and", collect_queries(queries))

\* Query::and
Query_and(qd, queries) == DocInsert(qd, "$and", collect_queries(queries))

\* Query::or
Query_or(qd, queries) == DocInsert(qd, "$or", collect_queries(queries))

\* The arguments the builder calls are tried with.
Fields == {"a", "b"}
Vals == {I32(1), I32(2)}
Deltas == {I64(2)}
PushVals == {Str("s")}
ValLists == {<<I32(1), I32(2)>>}
NewNames == {"x"}
Colls == {"c1"}
Limits == {2}
Offsets == {0}
DocArgs == {DocNew,
            << <<"a", I32(2)>> >>,
            << <<"b", I32(1)>>, <<"c", I32(2)>> >>}

\* Query::new(): an empty document; no FieldConstraint is being built.
QueryInit(budget) ==
    /\ q = DocNew
    /\ fc = <<>>
    /\ q_log = <<>>
    /\ q_budget = budget

\* A builder method of Query is called (self by value, a Query returned):
\* m, f and a record the method and its arguments, newq is what it returns.
QueryCall(m, f, a, newq) ==
    /\ fc = <<>>
    /\ q_budget > 0
    /\ q' = newq
    /\ q_log' = Append(q_log, [m |-> m, f |-> f, a |-> a])
    /\ q_budget' = q_budget - 1
    /\ UNCHANGED fc

Join == \E k \in Fields, c \in Colls : QueryCall("join", k, Str(c), Query_join(q, k, c))
AddToSet == \E k \in Fields, v \in PushVals : QueryCall("add_to_set", k, v, Query_add_to_set(q, k, v))
AddToSetAll ==
    \E k \in Fields, vs \in ValLists :
        QueryCall("add_to_set_all", k, Arr(vs), Query_add_to_set_all(q, k, vs))
Unset == \E k \in Fields : QueryCall("unset", k, Str(""), Query_unset(q, k))
Inc == \E k \in Fields, d \in Deltas : QueryCall("inc", k, d, Query_inc(q, k, d))
Set == \E k \in Fields, v \in Vals : QueryCall("set", k, v, Query_set(q, k, v))
SetMany == \E d \in DocArgs : QueryCall("set_many", "", Doc(d), Query_set_many(q, d))
Upsert == \E k \in Fields, v \in Vals : QueryCall("upsert", k, v, Query_upsert(q, k, v))
UpsertMany == \E d \in DocArgs : QueryCall("upsert_many", "", Doc(d), Query_upsert_many(q, d))
Pull == \E k \in Fields, v \in PushVals : QueryCall("pull", k, v, Query_pull(q, k, v))
PullAll ==
    \E k \in Fields, vs \in ValLists :
        QueryCall("pull_all", k, Arr(vs), Query_pull_all(q, k, vs))
Push == \E k \in Fields, v \in PushVals : QueryCall("push", k, v, Query_push(q, k, v))
PushAll ==
    \E k \in Fields, vs \in ValLists :
        QueryCall("push_all", k, Arr(vs), Query_push_all(q, k, vs))
Rename ==
    \E k \in Fields, n \in NewNames : QueryCall("rename", k, Str(n), Query_rename(q, k, n))
Slice == \E k \in Fields, l \in Limits : QueryCall("slice", k, I64(l), Query_slice(q, k, l))
SliceWithOffset ==
    \E k \in Fields, o \in Offsets, l \in Limits :
        QueryCall("slice_with_offset", k, Arr(<<I64(o), I64(l)>>),
                  Query_slice_with_offset(q, k, o, l))

\* The sub-query lists and()/or() are tried with (documents of finished
\* queries, as test_and and test_or build them).
QueryLists == {<<>>,
               << << <<"a", I32(1)>> >> >>,
               << << <<"a", I32(1)>> >>, << <<"b", Str("c")>> >> >>,
               << << <<"b", Str("c")>> >>, << <<"a", I32(1)>> >> >>}

And == \E qs \in QueryLists : QueryCall("and", "", collect_queries(qs), Query_and(q, qs))
Or == \E qs \in QueryLists : QueryCall("or", "", collect_queries(qs), Query_or(q, qs))

\* ---- FieldConstraint ----

\* FieldConstraint::process as it would be if the inner links were dropped
\* and the value stored under the outermost name as it is.
RECURSIVE FieldConstraint_process_flat(_, _, _)
FieldConstraint_process_flat(chain, qd, value) ==
    IF Len(chain) = 1
    THEN IF value.t = "doc"
         THEN merge_documents_at_key(qd, chain[1], value.d)
         ELSE DocInsert(qd, chain[1], value)
    ELSE FieldConstraint_process_flat(SubSeq(chain, 1, Len(chain) - 1), qd, value)

\* FieldConstraint::process. `chain` holds the names of the links, the Root
\* link first: the innermost link wraps the value in a one-entry document
\* and hands it to its parent; the Root link merges a document value into
\* the query at its name and inserts any other value there.
RECURSIVE FieldConstraint_process(_, _, _)
FieldConstraint_process(chain, qd, value) ==
    IF Len(chain) = 1
    THEN IF value.t = "doc"
         THEN merge_documents_at_key(qd, chain[1], value.d)
         ELSE DocInsert(qd, chain[1], value)
    ELSE FieldConstraint_process(SubSeq(chain, 1, Len(chain) - 1), qd,
                                 Doc(<< <<chain[Len(chain)], value>> >>))

\* The value each terminal method hands to process.
FieldConstraint_eq(value) == value
FieldConstraint_begin(value) == Doc(<< <<"$begin", Str(value)>> >>)
FieldConstraint_between(left, right) == Doc(<< <<"$bt", Arr(<<left, right>>)>> >>)
FieldConstraint_gt(value) == Doc(<< <<"$gt", value>> >>)
FieldConstraint_gte(value) == Doc(<< <<"$gte", value>> >>)
FieldConstraint_lt(value) == Doc(<< <<"$lt", value>> >>)
FieldConstraint_lte(value) == Doc(<< <<"$lte", value>> >>)
FieldConstraint_exists(exists) == Doc(<< <<"$exists", Bool(exists)>> >>)
FieldConstraint_elem_match(query) == Doc(<< <<"$elemMatch", Doc(query)>> >>)
FieldConstraint_contained_in(values) == Doc(<< <<"$in", Arr(values)>> >>)
FieldConstraint_not_contained_in(values) == Doc(<< <<"$nin", Arr(values)>> >>)
FieldConstraint_str_and(values) == Doc(<< <<"$strand", Arr(values)>> >>)
FieldConstraint_str_or(values) == Doc(<< <<"$stror", Arr(values)>> >>)

SubFields == {"b", "c"}
EqVals == {I32(1), Doc(<< <<"x", I32(1)>> >>), Doc(<< <<"$gt", I32(2)>> >>)}
Nums == {I32(1), I32(2)}
StrLists == {<<Str("s"), Str("t")>>}

\* Query::field(name): a FieldConstraint with the Root link.
Field ==
    /\ fc = <<>>
    /\ q_budget > 0
    /\ \E n \in Fields :
         /\ fc' = <<n>>
         /\ q_log' = Append(q_log, [m |-> "field", f |-> n, a |-> Str("")])
    /\ q_budget' = q_budget - 1
    /\ UNCHANGED q

\* A Child link is added to the chain: FieldConstraint::field(name), not(),
\* case_insensitive().
Link(m, name) ==
    /\ fc # <<>>
    /\ Len(fc) < MaxChain
    /\ q_budget > 0
    /\ fc' = Append(fc, name)
    /\ q_log' = Append(q_log, [m |-> m, f |-> name, a |-> Str("")])
    /\ q_budget' = q_budget - 1
    /\ UNCHANGED q

SubField == \E n \in SubFields : Link("subfield", n)
Not == Link("not", "$not")
CaseInsensitive == Link("case_insensitive", "$icase")

\* A terminal method consumes the chain and returns the Query: self.process(value).
Terminal(m, a, value) ==
    /\ fc # <<>>
    /\ q_budget > 0
    /\ q' = FieldConstraint_process(fc, q, value)
    /\ fc' = <<>>
    /\ q_log' = Append(q_log, [m |-> m, f |-> "", a |-> a])
    /\ q_budget' = q_budget - 1

Eq == \E v \in EqVals : Terminal("eq", v, FieldConstraint_eq(v))
Begin == Terminal("begin", Str("s"), FieldConstraint_begin("s"))
Between == Terminal("between", Arr(<<I32(1), I64(2)>>), FieldConstraint_between(I32(1), I64(2)))
Gt == \E n \in Nums : Terminal("gt", n, FieldConstraint_gt(n))
Gte == Terminal("gte", I32(1), FieldConstraint_gte(I32(1)))
Lt == \E n \in Nums : Terminal("lt", n, FieldConstraint_lt(n))
Lte == Terminal("lte", I32(2), FieldConstraint_lte(I32(2)))
Exists == \E b \in {TRUE} : Terminal("exists", Bool(b), FieldConstraint_exists(b))
ElemMatch ==
    \E d \in {<< <<"a", I32(2)>> >>} :
        Terminal("elem_match", Doc(d), FieldConstraint_elem_match(d))
ContainedIn ==
    \E vs \in ValLists : Terminal("contained_in", Arr(vs), FieldConstraint_contained_in(vs))
NotContainedIn ==
    \E vs \in ValLists :
        Terminal("not_contained_in", Arr(vs), FieldConstraint_not_contained_in(vs))
StrAnd == \E vs \in StrLists : Terminal("str_and", Arr(vs), FieldConstraint_str_and(vs))
StrOr == \E vs \in StrLists : Terminal("str_or", Arr(vs), FieldConstraint_str_or(vs))

\* ------------------------------------------------------------------------
\* QueryHints: src/src/database/query.rs
\* ------------------------------------------------------------------------

\* add_hint as it would be if it always built a fresh sub-document.
add_hint_fresh(hd, key, subkey, value) ==
    [h |-> DocInsert(hd, key, Doc(<< <<subkey, I32(value)>> >>)), panicked |-> FALSE]

\* QueryHints::add_hint: a new one-entry sub-document when the key is absent,
\* an insert into the sub-document when the key holds one, unreachable!()
\* when it holds anything else.
add_hint(hd, key, subkey, value) ==
    IF ~contains_key(hd, key)
    THEN [h |-> DocInsert(hd, key, Doc(<< <<subkey, I32(value)>> >>)), panicked |-> FALSE]
    ELSE IF DocGet(hd, key).t = "doc"
         THEN [h |-> DocSetAt(hd, key, Doc(DocInsert(DocGet(hd, key).d, subkey, I32(value)))),
               panicked |-> FALSE]
         ELSE [h |-> hd, panicked |-> TRUE]

QueryHints_max(hd, n) == DocInsert(hd, "$max", I64(n))
QueryHints_skip(hd, n) == DocInsert(hd, "$skip", I64(n))
QueryHintsOrderBy_desc(hd, field) == add_hint(hd, "$orderBy", field, -1)
QueryHintsOrderBy_asc(hd, field) == add_hint(hd, "$orderBy", field, 1)
QueryHintsField_exclude(hd, field) == add_hint(hd, "$fields", field, -1)
QueryHintsField_include(hd, field) == add_hint(hd, "$fields", field, 1)

Counts == {1, 2}
NoPending == [kind |-> "none", f |-> ""]

\* QueryHints::new()
HintsInit(budget) ==
    /\ h = DocNew
    /\ h_pending = NoPending
    /\ h_panic = FALSE
    /\ h_log = <<>>
    /\ h_budget = budget

\* QueryHints::max(n)
HintsMax ==
    /\ h_pending = NoPending /\ ~h_panic /\ h_budget > 0
    /\ \E n \in Counts :
         /\ h' = QueryHints_max(h, n)
         /\ h_log' = Append(h_log, [m |-> "max", f |-> "", n |-> n])
    /\ h_budget' = h_budget - 1
    /\ UNCHANGED <<h_pending, h_panic>>

\* QueryHints::skip(n)
HintsSkip ==
    /\ h_pending = NoPending /\ ~h_panic /\ h_budget > 0
    /\ \E n \in Counts :
         /\ h' = QueryHints_skip(h, n)
         /\ h_log' = Append(h_log, [m |-> "skip", f |-> "", n |-> n])
    /\ h_budget' = h_budget - 1
    /\ UNCHANGED <<h_pending, h_panic>>

\* QueryHints::order_by(field): the hints move into a QueryHintsOrderBy.
HintsOrderBy ==
    /\ h_pending = NoPending /\ ~h_panic /\ h_budget > 0
    /\ \E f \in Fields : h_pending' = [kind |-> "order_by", f |-> f]
    /\ h_budget' = h_budget - 1
    /\ UNCHANGED <<h, h_panic, h_log>>

\* QueryHints::field(field): the hints move into a QueryHintsField.
HintsField ==
    /\ h_pending = NoPending /\ ~h_panic /\ h_budget > 0
    /\ \E f \in Fields : h_pending' = [kind |-> "field", f |-> f]
    /\ h_budget' = h_budget - 1
    /\ UNCHANGED <<h, h_panic, h_log>>

\* The held builder is finished by method m, whose add_hint gives r.
HintsFinish(kind, m, r) ==
    /\ h_pending.kind = kind /\ ~h_panic /\ h_budget > 0
    /\ h' = r.h
    /\ h_panic' = r.panicked
    /\ h_log' = Append(h_log, [m |-> m, f |-> h_pending.f, n |-> 0])
    /\ h_pending' = NoPending
    /\ h_budget' = h_budget - 1

\* The documents QueryHints::from is given.
HintDocs ==
    { DocNew,
      << <<"$orderBy", I32(1)>> >>,
      << <<"$orderBy", Doc(<< <<"a", I32(1)>> >>)>> >>,
      << <<"$fields", Str("a")>>, <<"$max", I64(1)>> >> }

\* QueryHints::from(document)
HintsFromInit(budget) ==
    /\ h \in HintDocs
    /\ h_pending = NoPending
    /\ h_panic = FALSE
    /\ h_log = <<>>
    /\ h_budget = budget

\* hints.insert(key, value) through DerefMut / as_bson_mut
HintsDerefInsert ==
    /\ h_pending = NoPending /\ ~h_panic /\ h_budget > 0
    /\ \E k \in {"$orderBy", "$fields"}, v \in {I32(1), Doc(DocNew)} :
         h' = DocInsert(h, k, v)
    /\ h_budget' = h_budget - 1
    /\ UNCHANGED <<h_pending, h_panic, h_log>>

Desc == HintsFinish("order_by", "desc", QueryHintsOrderBy_desc(h, h_pending.f))
Asc == HintsFinish("order_by", "asc", QueryHintsOrderBy_asc(h, h_pending.f))
Exclude == HintsFinish("field", "exclude", QueryHintsField_exclude(h, h_pending.f))
Include == HintsFinish("field", "include", QueryHintsField_include(h, h_pending.f))

\* ------------------------------------------------------------------------
\* Collection::save and Collection::load on the stored records:
\* src/src/database/mod.rs
\* ------------------------------------------------------------------------

Oid(n) == [t |-> "oid", i |-> n, s |-> "", d |-> <<>>]

\* The ObjectId a document carries under _id; 0 when it carries none.
DocOid(d) ==
    IF contains_key(d, "_id") /\ DocGet(d, "_id").t = "oid" THEN DocGet(d, "_id").i ELSE 0

\* The documents given to save.
StoreDocs ==
    { << <<"name", Str("Foo")>> >>,
      << <<"count", I32(1)>> >>,
      << <<"_id", Oid(1)>>, <<"name", Str("Foo")>> >>,
      << <<"count", I32(2)>>, <<"_id", Oid(1)>> >> }

\* The identifiers given to load.
LoadIds == 1..(NumOids + 1)

\* ejdbsavebson on success: the record is stored under id with _id as its
\* first field, replacing the record that id had.
ejdbsavebson(st, d, id) ==
    LET rec == << <<"_id", Oid(id)>> >> \o SelectSeq(d, LAMBDA e : e[1] # "_id")
    IN [j \in (DOMAIN st) \cup {id} |-> IF j = id THEN rec ELSE st[j]]

\* ejdbloadbson: the record of id, or null when there is none or the load
\* fails.
ejdbloadbson(st, id, native_ok) ==
    IF native_ok /\ id \in DOMAIN st
    THEN [null |-> FALSE, doc |-> st[id]]
    ELSE [null |-> TRUE, doc |-> <<>>]

\* Collection::load as it would be if it checked the error code before
\* looking at the result.
load_code_first(result, code, dec_ok) ==
    IF code # 0
    THEN [ok |-> FALSE, some |-> FALSE, doc |-> <<>>]
    ELSE IF result.null
         THEN [ok |-> TRUE, some |-> FALSE, doc |-> <<>>]
         ELSE IF dec_ok
              THEN [ok |-> TRUE, some |-> TRUE, doc |-> result.doc]
              ELSE [ok |-> FALSE, some |-> FALSE, doc |-> <<>>]

\* Collection::load on the result of ejdbloadbson: a null result is Ok(None)
\* when last_error_msg() is None and an error otherwise; a document is
\* decoded (to_bson may fail).
load(result, code, dec_ok) ==
    IF result.null
    THEN IF code = 0
         THEN [ok |-> TRUE, some |-> FALSE, doc |-> <<>>]
         ELSE [ok |-> FALSE, some |-> FALSE, doc |-> <<>>]
    ELSE IF dec_ok
         THEN [ok |-> TRUE, some |-> TRUE, doc |-> result.doc]
         ELSE [ok |-> FALSE, some |-> FALSE, doc |-> <<>>]

\* The code a failed native call leaves in the handle.
NativeErrors == {9001}

StoreInit(budget) ==
    /\ store = << >>
    /\ ecode = 0
    /\ st_next_oid = NumOids + 1
    /\ st_log = <<>>
    /\ st_budget = budget

\* coll.save(d)
StoreSave ==
    /\ st_budget > 0
    /\ \E d \in StoreDocs, enc_ok, native_ok \in BOOLEAN, e \in NativeErrors :
         LET r == save([oid |-> DocOid(d)], enc_ok, native_ok, st_next_oid)
         IN /\ store' = IF r.ok THEN ejdbsavebson(store, d, r.id) ELSE store
            /\ ecode' = IF enc_ok /\ ~native_ok THEN e ELSE ecode
            /\ st_next_oid' = IF r.ok /\ DocOid(d) = 0 THEN st_next_oid + 1 ELSE st_next_oid
            /\ st_log' = Append(st_log, [op |-> "save", d |-> d, id |-> r.id,
                                         native_ok |-> native_ok, codec_ok |-> enc_ok,
                                         ok |-> r.ok, some |-> FALSE, doc |-> <<>>])
    /\ st_budget' = st_budget - 1

\* coll.load(&id)
StoreLoad ==
    /\ st_budget > 0
    /\ \E id \in LoadIds, native_ok, dec_ok \in BOOLEAN, e \in NativeErrors :
         LET code == IF native_ok THEN ecode ELSE e
             r == load(ejdbloadbson(store, id, native_ok), code, dec_ok)
         IN /\ ecode' = code
            /\ st_log' = Append(st_log, [op |-> "load", d |-> <<>>, id |-> id,
                                         native_ok |-> native_ok, codec_ok |-> dec_ok,
                                         ok |-> r.ok, some |-> r.some, doc |-> r.doc])
    /\ st_budget' = st_budget - 1
    /\ UNCHANGED <<store, st_next_oid>>

\* ------------------------------------------------------------------------
\* Index: src/src/database/indices.rs
\* ------------------------------------------------------------------------

\* The ejdb_sys::JBIDX* flags, each one bit of its own; a flags word is kept
\* as the set of the bits set in it.
TypeFlags == {"JBIDXSTR", "JBIDXISTR", "JBIDXNUM", "JBIDXARR"}

NoFlags == [some |-> FALSE, bits |-> {}]

\* Index::add_flags: Some(self.flags.unwrap_or(0) | flags)
add_flags(flags, f) == [some |-> TRUE, bits |-> flags.bits \cup {f}]

\* check_type as it would be if it only required some flags to be present.
check_type_any_flags(flags) == [panic |-> ~flags.some]

\* Index::check_type: expect() panics on None, assert! panics when no type
\* bit is set.
check_type(flags) ==
    [panic |-> \/ ~flags.some
               \/ ~(\E f \in TypeFlags : f \in flags.bits)]

\* Index::execute: expect() on the flags, CString::new(key) may fail, then
\* ejdbsetindex.
execute_index(flags, key_ok, native_ok) ==
    IF ~flags.some THEN [out |-> "panic", called |-> FALSE]
    ELSE IF ~key_ok THEN [out |-> "err", called |-> FALSE]
    ELSE [out |-> IF native_ok THEN "ok" ELSE "err", called |-> TRUE]

\* Collection::index(key)
IndexInit(budget) ==
    /\ idx_flags = NoFlags
    /\ idx_log = <<>>
    /\ idx_out = "none"
    /\ idx_native = <<>>
    /\ idx_budget = budget

IndexType(m, f) ==
    /\ idx_out = "none" /\ idx_budget > 0
    /\ idx_flags' = add_flags(idx_flags, f)
    /\ idx_log' = Append(idx_log, m)
    /\ idx_budget' = idx_budget - 1
    /\ UNCHANGED <<idx_out, idx_native>>

\* Index::string(case_sensitive)
IndexString ==
    \E case_sensitive \in BOOLEAN :
        IndexType("string", IF case_sensitive THEN "JBIDXSTR" ELSE "JBIDXISTR")

\* Index::number()
IndexNumber == IndexType("number", "JBIDXNUM")

\* Index::array()
IndexArray == IndexType("array", "JBIDXARR")

\* A consuming method m: flags are what it hands to check_type (checked
\* says whether it calls check_type at all) and then to execute.
IndexConsume(m, flags, checked) ==
    /\ idx_out = "none"
    /\ idx_log' = Append(idx_log, m)
    /\ idx_flags' = flags
    /\ \E key_ok, native_ok \in BOOLEAN :
         LET r == execute_index(flags, key_ok, native_ok)
         IN IF checked /\ check_type(flags).panic
            THEN idx_out' = "panic" /\ idx_native' = idx_native
            ELSE /\ idx_out' = r.out
                 /\ idx_native' = IF r.called THEN Append(idx_native, flags.bits)
                                              ELSE idx_native
    /\ UNCHANGED idx_budget

\* Index::set()
IndexSet == IndexConsume("set", idx_flags, TRUE)

\* Index::drop_all(): self.flags = Some(JBIDXDROPALL)
IndexDropAll == IndexConsume("drop_all", [some |-> TRUE, bits |-> {"JBIDXDROPALL"}], FALSE)

\* Index::drop()
IndexDrop == IndexConsume("drop", add_flags(idx_flags, "JBIDXDROP"), TRUE)

\* Index::rebuild()
IndexRebuild == IndexConsume("rebuild", add_flags(idx_flags, "JBIDXREBLD"), TRUE)

\* Index::optimize()
IndexOptimize == IndexConsume("optimize", add_flags(idx_flags, "JBIDXOP"), TRUE)

\* ------------------------------------------------------------------------
\* PreparedQuery and QueryResult: src/src/database/mod.rs
\* ------------------------------------------------------------------------

\* ejdbqryexecute: on failure a null result; with JBQRYCOUNT a null result
\* and the count alone; otherwise the buffers of the matched records and
\* their count (one record at most with JBQRYFINDONE).
ejdbqryexecute(flags, native_ok, n) ==
    IF ~native_ok THEN [null |-> TRUE, len |-> 0, count |-> 0]
    ELSE IF "JBQRYCOUNT" \in flags THEN [null |-> TRUE, len |-> 0, count |-> n]
    ELSE IF "JBQRYFINDONE" \in flags /\ n > 1 THEN [null |-> FALSE, len |-> 1, count |-> 1]
    ELSE [null |-> FALSE, len |-> n, count |-> n]

\* An Err out of execute. `made` tells whether ejdbqryexecute had returned a
\* non-null result list by then; `null` that no list is handed to the caller.
ExecErr(stage, events) ==
    [ok |-> FALSE, stage |-> stage, null |-> TRUE, len |-> 0, count |-> 0,
     events |-> events, wrote |-> FALSE, made |-> FALSE]

\* The tail of PreparedQuery::execute from the call of ejdbqryexecute on,
\* as it would be if the log were dumped before the result is looked at.
execute_tail_log_first(flags, log_out, in, ev) ==
    LET res == ejdbqryexecute(flags, in.native_ok, in.n)
        e1 == Append(ev, "ejdbqryexecute")
        e2 == IF log_out THEN Append(e1, "write") ELSE e1
    IN IF log_out /\ ~in.write_ok
       THEN [ExecErr("write", e2) EXCEPT !.made = ~res.null]
       ELSE IF res.null /\ "JBQRYCOUNT" \notin flags
            THEN [ExecErr("ejdbqryexecute", e2) EXCEPT !.wrote = log_out]
            ELSE [ok |-> TRUE, stage |-> "", null |-> res.null, len |-> res.len,
                  count |-> res.count, events |-> e2, wrote |-> log_out,
                  made |-> ~res.null]

\* The tail of PreparedQuery::execute from the call of ejdbqryexecute on: a
\* null result is an error unless JBQRYCOUNT was asked for; then the log is
\* written to the target, when there is one; then Ok((result, count)).
execute_tail(flags, log_out, in, ev) ==
    LET res == ejdbqryexecute(flags, in.native_ok, in.n)
        e1 == Append(ev, "ejdbqryexecute")
    IN IF res.null /\ "JBQRYCOUNT" \notin flags
       THEN ExecErr("ejdbqryexecute", e1)
       ELSE IF log_out
            THEN IF in.write_ok
                 THEN [ok |-> TRUE, stage |-> "", null |-> res.null, len |-> res.len,
                       count |-> res.count, events |-> Append(e1, "write"), wrote |-> TRUE,
                       made |-> ~res.null]
                 ELSE [ExecErr("write", Append(e1, "write")) EXCEPT !.made = ~res.null]
            ELSE [ok |-> TRUE, stage |-> "", null |-> res.null, len |-> res.len,
                  count |-> res.count, events |-> e1, wrote |-> FALSE,
                  made |-> ~res.null]

\* PreparedQuery::execute: the query is encoded (try!), ejdbcreatequery2 may
\* return null, non-empty hints are encoded (try!) and set with
\* ejdbqueryhints, which may return null; then the execution.
execute(flags, log_out, in) ==
    IF ~in.enc_q THEN ExecErr("encode_query", <<"encode_query">>)
    ELSE IF ~in.create THEN ExecErr("ejdbcreatequery2", <<"encode_query", "ejdbcreatequery2">>)
    ELSE IF in.hints_empty
         THEN execute_tail(flags, log_out, in, <<"encode_query", "ejdbcreatequery2">>)
    ELSE IF ~in.enc_h
         THEN ExecErr("encode_hints", <<"encode_query", "ejdbcreatequery2", "encode_hints">>)
    ELSE IF ~in.hints
         THEN ExecErr("ejdbqueryhints",
                      <<"encode_query", "ejdbcreatequery2", "encode_hints", "ejdbqueryhints">>)
    ELSE execute_tail(flags, log_out, in,
                      <<"encode_query", "ejdbcreatequery2", "encode_hints", "ejdbqueryhints">>)

\* What the outside may make of one execution.
ExecInputs ==
    [enc_q : BOOLEAN, create : BOOLEAN, hints_empty : BOOLEAN, enc_h : BOOLEAN,
     hints : BOOLEAN, native_ok : BOOLEAN, n : 0..MaxItems, write_ok : BOOLEAN]

NoResult == [live |-> FALSE, len |-> 0, current |-> 0, total |-> 0]

\* QueryResult { result: r, current: 0, total: n }
QueryResult(r) == [live |-> TRUE, len |-> r.len, current |-> 0, total |-> r.count]

\* ejdbqresultbsondata(result, index): the buffer of the record at `index`
\* of a result list of `len` records, null for any other index.
ejdbqresultbsondata(len, index) ==
    IF index >= 0 /\ index < len THEN "buffer" ELSE "null"

\* next() as it would be if it did not advance `current`.
QueryResult_next_stuck(res, dec_ok) ==
    IF res.current >= res.len
    THEN [yield |-> "none", qr |-> res]
    ELSE [yield |-> IF dec_ok THEN "item" ELSE "err", qr |-> res]

\* next() as it would be if the end of the list sent the cursor back to the
\* first record.
QueryResult_next_rewinding(res, dec_ok) ==
    IF ejdbqresultbsondata(res.len, res.current) = "null"
    THEN [yield |-> "none", qr |-> [res EXCEPT !.current = 0]]
    ELSE [yield |-> IF dec_ok THEN "item" ELSE "err",
          qr |-> [res EXCEPT !.current = res.current + 1]]

\* Iterator::next for QueryResult: when ejdbqresultbsondata gives null, None
\* and nothing changes; otherwise current advances and the buffer is decoded.
QueryResult_next(res, dec_ok) ==
    IF ejdbqresultbsondata(res.len, res.current) = "null"
    THEN [yield |-> "none", qr |-> res]
    ELSE [yield |-> IF dec_ok THEN "item" ELSE "err",
          qr |-> [res EXCEPT !.current = res.current + 1]]

\* Collection::query(query, hints)
PqInit(prepared, budget) ==
    /\ pq_pc = IF prepared THEN "prepared" ELSE "returned"
    /\ pq_log_out = FALSE
    /\ pq_method = ""
    /\ pq_native_ok = FALSE
    /\ pq_ret = [ok |-> FALSE, stage |-> "", count |-> 0]
    /\ pq_events = <<>>
    /\ log_target = <<>>
    /\ qr = NoResult
    /\ qr_yield = <<>>
    /\ qr_budget = budget
    /\ pq_made = 0
    /\ pq_disposed = 0

\* PreparedQuery::log_output(target)
LogOutput ==
    /\ pq_pc = "prepared"
    /\ ~pq_log_out
    /\ pq_log_out' = TRUE
    /\ UNCHANGED <<pq_pc, pq_method, pq_native_ok, pq_ret, pq_events, log_target,
                   qr, qr_yield, qr_budget, pq_made, pq_disposed>>

\* A consuming method m runs execute(flags); keep says whether the result
\* becomes a QueryResult the caller holds. Nothing on these paths calls
\* ejdbqresultdispose: count() and update() let the pointer go, find() moves
\* it into the QueryResult, and an Err out of execute carries no pointer.
PqConsume(m, flags, keep) ==
    /\ pq_pc = "prepared"
    /\ \E in \in ExecInputs :
         LET r == execute(flags, pq_log_out, in)
         IN /\ pq_ret' = [ok |-> r.ok, stage |-> r.stage, count |-> r.count]
            /\ pq_events' = r.events
            /\ pq_native_ok' = in.native_ok
            /\ log_target' = IF r.wrote THEN Append(log_target, "log") ELSE log_target
            /\ qr' = IF r.ok /\ keep THEN QueryResult(r) ELSE NoResult
            /\ pq_made' = IF r.made THEN pq_made + 1 ELSE pq_made
    /\ pq_method' = m
    /\ pq_pc' = "returned"
    /\ UNCHANGED <<pq_log_out, qr_yield, qr_budget, pq_disposed>>

\* PreparedQuery::count()
PqCount == PqConsume("count", {"JBQRYCOUNT"}, FALSE)

\* PreparedQuery::update()
PqUpdate == PqConsume("update", {"JBQRYCOUNT"}, FALSE)

\* PreparedQuery::find()
PqFind == PqConsume("find", {}, TRUE)

\* PreparedQuery::find_one(): execute, then one next() on the QueryResult,
\* which is dropped (Drop for QueryResult: ejdbqresultdispose).
PqFindOne ==
    /\ pq_pc = "prepared"
    /\ \E in \in ExecInputs, dec_ok \in BOOLEAN :
         LET r == execute({"JBQRYFINDONE"}, pq_log_out, in)
             y == QueryResult_next(QueryResult(r), dec_ok).yield
         IN /\ pq_ret' = [ok |-> r.ok /\ y # "err",
                          stage |-> IF r.ok /\ y = "err" THEN "decode" ELSE r.stage,
                          count |-> r.count]
            /\ pq_events' = r.events
            /\ pq_native_ok' = in.native_ok
            /\ log_target' = IF r.wrote THEN Append(log_target, "log") ELSE log_target
            /\ qr_yield' = IF r.ok THEN <<y>> ELSE <<>>
            /\ pq_made' = IF r.made THEN pq_made + 1 ELSE pq_made
            /\ pq_disposed' = IF r.ok THEN pq_disposed + 1 ELSE pq_disposed
    /\ pq_method' = "find_one"
    /\ pq_pc' = "returned"
    /\ UNCHANGED <<pq_log_out, qr, qr_budget>>

\* One next() on the QueryResult find() returned.
QrNext ==
    /\ qr.live
    /\ qr_budget > 0
    /\ \E dec_ok \in BOOLEAN :
         LET r == QueryResult_next(qr, dec_ok)
         IN /\ qr' = r.qr
            /\ qr_yield' = Append(qr_yield, r.yield)
    /\ qr_budget' = qr_budget - 1
    /\ UNCHANGED <<pq_pc, pq_log_out, pq_method, pq_native_ok, pq_ret, pq_events, log_target,
                   pq_made, pq_disposed>>

\* The caller lets go of the QueryResult find() returned: Drop for
\* QueryResult calls ejdbqresultdispose(self.result).
QrDrop ==
    /\ qr.live
    /\ qr' = [qr EXCEPT !.live = FALSE]
    /\ pq_disposed' = pq_disposed + 1
    /\ UNCHANGED <<pq_pc, pq_log_out, pq_method, pq_native_ok, pq_ret, pq_events, log_target,
                   qr_yield, qr_budget, pq_made>>

\* ------------------------------------------------------------------------
\* The ejdb-bson builder and its iterator: src/ejdb-bson/src/lib.rs
\* ------------------------------------------------------------------------

\* Byte strings are sequences of numbers 0..255.
HasZero(bytes) == \E j \in DOMAIN bytes : bytes[j] = 0

\* CStr::from_ptr(p).to_bytes(): the bytes before the first zero byte.
CStr_to_bytes(data) ==
    IF HasZero(data)
    THEN SubSeq(data, 1, (CHOOSE j \in DOMAIN data :
                              data[j] = 0 /\ \A i \in 1..(j - 1) : data[i] # 0) - 1)
    ELSE data

\* The ejdb_sys::BSON_BIN_* codes of BsonBinaryType.
BinCodes == [Binary |-> 0, Func |-> 1, BinaryOld |-> 2, Uuid |-> 3, Md5 |-> 5, User |-> 128]

\* `x as i8` of a small c_uint. `x as c_uint` of an i8 sign-extends; the
\* 32-bit result is kept as its two 16-bit halves <<high, low>>.
AsI8(x) == IF x % 256 >= 128 THEN (x % 256) - 256 ELSE x % 256
AsCUint(x) == IF x >= 0 THEN <<0, x>> ELSE <<65535, 65536 + x>>

\* BsonBinaryType::to_i8
BsonBinaryType_to_i8(t) == AsI8(BinCodes[t])

\* BsonBinaryType::from_i8: the type whose code equals `value as c_uint`,
\* "None" when there is none.
BsonBinaryType_from_i8(value) ==
    IF \E t \in DOMAIN BinCodes : <<0, BinCodes[t]>> = AsCUint(value)
    THEN CHOOSE t \in DOMAIN BinCodes : <<0, BinCodes[t]>> = AsCUint(value)
    ELSE "None"

\* The native element type each append_* method writes.
TagOf(m) ==
    CASE m = "append_oid" -> "BSON_OID"
      [] m = "append_int" -> "BSON_INT"
      [] m = "append_long" -> "BSON_LONG"
      [] m = "append_double" -> "BSON_DOUBLE"
      [] m = "append_string" -> "BSON_STRING"
      [] m = "append_code" -> "BSON_CODE"
      [] m = "append_code_with_scope" -> "BSON_CODEWSCOPE"
      [] m = "append_symbol" -> "BSON_SYMBOL"
      [] m = "append_binary" -> "BSON_BINDATA"
      [] m = "append_bool" -> "BSON_BOOL"
      [] m = "append_null" -> "BSON_NULL"
      [] m = "append_undefined" -> "BSON_UNDEFINED"
      [] m = "append_bson" -> "BSON_OBJECT"
      [] m = "append_timestamp" -> "BSON_TIMESTAMP"
      [] m = "append_date" -> "BSON_DATE"

AppendMethods ==
    {"append_oid", "append_int", "append_long", "append_double", "append_string",
     "append_code", "append_code_with_scope", "append_symbol", "append_binary",
     "append_bool", "append_null", "append_undefined", "append_bson",
     "append_timestamp", "append_date"}

\* The value an append_* call carries, as bytes or numbers.
ValuesOf(m) ==
    CASE m \in {"append_string", "append_code", "append_code_with_scope", "append_symbol",
                "append_binary"} -> {<<119, 111>>}
      [] m \in {"append_null", "append_undefined"} -> {<< >>}
      [] m = "append_bool" -> {<<1>>}
      [] m = "append_timestamp" -> {<<7, 9>>}
      [] OTHER -> {<<123>>}

SubsOf(m) == IF m = "append_binary" THEN {"Binary", "User"} ELSE {""}

BuilderKeys == {<<104>>, <<105, 100>>, <<104, 0, 105>>}

\* gen_append_method: CString::new(key).unwrap() panics on a key with a zero
\* byte; otherwise the native append adds the element. A string-like value
\* is stored with a trailing zero byte, counted in its length.
gen_append_method(doc, m, key, sub, v) ==
    IF HasZero(key)
    THEN [panic |-> TRUE, doc |-> doc]
    ELSE [panic |-> FALSE,
          doc |-> Append(doc,
                    [tag |-> TagOf(m), key |-> key,
                     sub |-> IF sub = "" THEN 0 ELSE BsonBinaryType_to_i8(sub),
                     data |-> IF m \in {"append_string", "append_code",
                                        "append_code_with_scope", "append_symbol"}
                              THEN Append(v, 0) ELSE v,
                     len |-> IF m \in {"append_string", "append_code",
                                       "append_code_with_scope", "append_symbol"}
                             THEN Len(v) + 1 ELSE Len(v)])]

Item(variant, sub, v) == [panic |-> FALSE, variant |-> variant, sub |-> sub, v |-> v]
ItemPanic == [panic |-> TRUE, variant |-> "", sub |-> "", v |-> << >>]

\* BsonIteratorItem::from_iterator
from_iterator(el) ==
    CASE el.tag = "BSON_DOUBLE" -> Item("Double", "", el.data)
      [] el.tag = "BSON_INT" -> Item("Int", "", el.data)
      [] el.tag = "BSON_LONG" -> Item("Long", "", el.data)
      [] el.tag = "BSON_TIMESTAMP" -> Item("Timestamp", "", el.data)
      [] el.tag = "BSON_BOOL" -> Item("Bool", "", el.data)
      [] el.tag = "BSON_OID" -> Item("Oid", "", el.data)
      [] el.tag = "BSON_STRING" -> Item("String", "", SubSeq(el.data, 1, el.len - 1))
      [] el.tag = "BSON_CODE" -> Item("Code", "", CStr_to_bytes(el.data))
      [] el.tag = "BSON_CODEWSCOPE" -> Item("CodeWithScope", "", CStr_to_bytes(el.data))
      [] el.tag = "BSON_DATE" -> Item("Date", "", el.data)
      [] el.tag = "BSON_BINDATA" ->
            IF BsonBinaryType_from_i8(el.sub) = "None"
            THEN ItemPanic
            ELSE Item("Binary", BsonBinaryType_from_i8(el.sub), SubSeq(el.data, 1, el.len))
      [] el.tag = "BSON_OBJECT" -> Item("Object", "", el.data)
      [] el.tag = "BSON_ARRAY" -> Item("Array", "", el.data)
      [] OTHER -> ItemPanic

\* for (k, v) in bson.iter(): the pairs yielded up to the end or to the
\* first panic.
RECURSIVE iter_collect(_, _)
iter_collect(doc, acc) ==
    IF doc = << >> THEN [panic |-> FALSE, items |-> acc]
    ELSE LET it == from_iterator(Head(doc))
         IN IF it.panic
            THEN [panic |-> TRUE, items |-> acc]
            ELSE iter_collect(Tail(doc),
                     Append(acc, [key |-> CStr_to_bytes(Head(doc).key),
                                  variant |-> it.variant, sub |-> it.sub, v |-> it.v]))

\* Bson::new()
BbInit(budget) ==
    /\ bb = << >>
    /\ bb_log = << >>
    /\ bb_panic = ""
    /\ bb_iterated = FALSE
    /\ bb_items = << >>
    /\ bb_budget = budget

\* bson.append_*(key, value)
BbAppend ==
    /\ bb_panic = "" /\ ~bb_iterated /\ bb_budget > 0
    /\ \E m \in AppendMethods, key \in BuilderKeys :
         \E sub \in SubsOf(m), v \in ValuesOf(m) :
            LET r == gen_append_method(bb, m, key, sub, v)
            IN /\ bb' = r.doc
               /\ bb_panic' = IF r.panic THEN "append" ELSE ""
               /\ bb_log' = Append(bb_log, [m |-> m, key |-> key, sub |-> sub, v |-> v])
    /\ bb_budget' = bb_budget - 1
    /\ UNCHANGED <<bb_iterated, bb_items>>

\* for (k, v) in bson.iter() { .. }
BbIterate ==
    /\ bb_panic = "" /\ ~bb_iterated
    /\ LET r == iter_collect(bb, << >>)
       IN /\ bb_items' = r.items
          /\ bb_panic' = IF r.panic THEN "iter" ELSE ""
    /\ bb_iterated' = TRUE
    /\ UNCHANGED <<bb, bb_log, bb_budget>>

\* ------------------------------------------------------------------------
\* OidHexDisplay: src/src/types.rs
\* ------------------------------------------------------------------------

\* static CHARS: &'static [u8] = b"0123456789abcdef"
CHARS == <<"0", "1", "2", "3", "4", "5", "6", "7", "8", "9", "a", "b", "c", "d", "e", "f">>

\* fmt as it would be if the low nibble were written first.
RECURSIVE OidHexDisplay_fmt_low_first(_)
OidHexDisplay_fmt_low_first(bytes) ==
    IF bytes = << >> THEN << >>
    ELSE <<CHARS[(Head(bytes) % 16) + 1], CHARS[(Head(bytes) \div 16) + 1]>>
         \o OidHexDisplay_fmt_low_first(Tail(bytes))

\* Display for OidHexDisplay: for each byte, CHARS[byte >> 4] then
\* CHARS[byte & 0xf] (CHARS is indexed from 0 there, from 1 here).
RECURSIVE OidHexDisplay_fmt(_)
OidHexDisplay_fmt(bytes) ==
    IF bytes = << >> THEN << >>
    ELSE <<CHARS[(Head(bytes) \div 16) + 1], CHARS[(Head(bytes) % 16) + 1]>>
         \o OidHexDisplay_fmt(Tail(bytes))

\* The ObjectIds displayed.
OidInputs ==
    {[j \in 1..12 |-> (first + stride * (j - 1)) % 256] :
        first \in 0..255, stride \in 0..MaxStride}

OidInit(ids, done) ==
    /\ oid_in \in ids
    /\ oid_text = << >>
    /\ oid_done = done

\* format!("{}", OidHexDisplay(id))
OidFormat ==
    /\ ~oid_done
    /\ oid_text' = OidHexDisplay_fmt(oid_in)
    /\ oid_done' = TRUE
    /\ UNCHANGED oid_in

\* ------------------------------------------------------------------------
\* EjdbObjectId: src/src/ejdb_bson.rs
\* ------------------------------------------------------------------------

\* `x as i8` for a u8 x: the same 8 bits read as two's complement.
u8_as_i8(x) == IF x >= 128 THEN x - 256 ELSE x

\* `x as u8` for an i8 x.
i8_as_u8(x) == IF x < 0 THEN x + 256 ELSE x

\* to_i as it would be if the cast saturated at i8::MAX.
to_i_saturating(arr) == [j \in DOMAIN arr |-> IF arr[j] > 127 THEN 127 ELSE arr[j]]

\* to_i: result[i] = arr[i] as i8, for i in 0..arr.len()
to_i(arr) == [j \in DOMAIN arr |-> u8_as_i8(arr[j])]

\* to_u: result[i] = arr[i] as u8, for i in 0..arr.len()
to_u(arr) == [j \in DOMAIN arr |-> i8_as_u8(arr[j])]

\* EjdbObjectId::from_rust(oid): bson_oid_t { bytes: to_i(oid.bytes()) }
EjdbObjectId_from_rust(oid) == to_i(oid)

\* EjdbObjectId::to_rust(self): ObjectId::with_bytes(to_u(bytes))
EjdbObjectId_to_rust(raw) == to_u(raw)

\* The native ids (bson_oid_t.bytes, [i8; 12]) the conversions are tried with.
RawInputs ==
    {[j \in 1..12 |-> ((first + stride * (j - 1)) % 256) - 128] :
        first \in 0..255, stride \in 0..MaxStride}

CastInit(rust_ids, raw_ids, steps) ==
    /\ \/ cast_kind = "rust" /\ cast_in \in rust_ids
       \/ cast_kind = "ejdb" /\ cast_in \in raw_ids
    /\ cast_cur = cast_in
    /\ cast_steps = steps

\* EjdbObjectId::from_rust on the current ObjectId.
FromRust ==
    /\ cast_kind = "rust"
    /\ cast_steps < MaxCasts
    /\ cast_cur' = EjdbObjectId_from_rust(cast_cur)
    /\ cast_kind' = "ejdb"
    /\ cast_steps' = cast_steps + 1
    /\ UNCHANGED cast_in

\* EjdbObjectId::to_rust on the current EjdbObjectId.
ToRust ==
    /\ cast_kind = "ejdb"
    /\ cast_steps < MaxCasts
    /\ cast_cur' = EjdbObjectId_to_rust(cast_cur)
    /\ cast_kind' = "rust"
    /\ cast_steps' = cast_steps + 1
    /\ UNCHANGED cast_in

\* ------------------------------------------------------------------------
\* Database: src/src/database/mod.rs
\* ------------------------------------------------------------------------

\* Database::open_with_mode(path, mode): ejdbnew may return null; then
\* CString::new(path) fails on a zero byte (try!); then ejdbopen tells
\* whether the database was opened. `made` says a handle was allocated,
\* `dels` counts the ejdbdel calls the function makes itself.
open_with_mode(path, new_ok, open_ok) ==
    IF ~new_ok THEN [ret |-> "Err", msg |-> "cannot create database", made |-> FALSE, dels |-> 0]
    ELSE IF HasZero(path)
         THEN [ret |-> "Err", msg |-> "invalid path specified", made |-> TRUE, dels |-> 0]
    ELSE IF open_ok
         THEN [ret |-> "Ok", msg |-> "", made |-> TRUE, dels |-> 0]
         ELSE [ret |-> "Err", msg |-> "cannot open database", made |-> TRUE, dels |-> 0]

\* The paths open_with_mode is called with, as bytes.
Paths == {<<47, 100, 98>>, <<47, 0, 98>>, <<100>>}

DbInit(budget) ==
    /\ db_live = FALSE
    /\ db_new = 0
    /\ db_del = 0
    /\ db_log = <<>>
    /\ db_budget = budget

\* Database::open_with_mode is called while no Database is held.
OpenWithMode ==
    /\ ~db_live
    /\ db_budget > 0
    /\ \E path \in Paths, new_ok, open_ok \in BOOLEAN :
         LET r == open_with_mode(path, new_ok, open_ok)
         IN /\ db_live' = (r.ret = "Ok")
            /\ db_new' = IF r.made THEN db_new + 1 ELSE db_new
            /\ db_del' = db_del + r.dels
            /\ db_log' = Append(db_log, [path |-> path, new_ok |-> new_ok,
                                         open_ok |-> open_ok, ret |-> r.ret])
    /\ db_budget' = db_budget - 1

\* The Database goes out of scope: Drop for Database calls ejdbdel(self.0).
DatabaseDrop ==
    /\ db_live
    /\ db_live' = FALSE
    /\ db_del' = db_del + 1
    /\ UNCHANGED <<db_new, db_log, db_budget>>

\* ------------------------------------------------------------------------
\* BsonBinaryType round trips: src/ejdb-bson/src/lib.rs
\* ------------------------------------------------------------------------

BinInit(budget) ==
    /\ bin_pc = "idle"
    /\ bin_t = "Binary"
    /\ bin_code = 0
    /\ bin_log = << >>
    /\ bin_budget = budget

\* append_binary(key, t, data): the subtype byte written is t.to_i8().
BinStore ==
    /\ bin_pc \in {"idle", "read"}
    /\ bin_budget > 0
    /\ \E t \in DOMAIN BinCodes :
         /\ bin_t' = t
         /\ bin_code' = BsonBinaryType_to_i8(t)
    /\ bin_pc' = "stored"
    /\ bin_budget' = bin_budget - 1
    /\ UNCHANGED bin_log

\* The BSON_BINDATA arm of from_iterator on that entry:
\* BsonBinaryType::from_i8(bson_iterator_bin_type(iterator)), "None" being
\* the value unwrap() panics on.
BinRead ==
    /\ bin_pc = "stored"
    /\ bin_log' = Append(bin_log, [t |-> bin_t, code |-> bin_code,
                                    back |-> BsonBinaryType_from_i8(bin_code)])
    /\ bin_pc' = "read"
    /\ UNCHANGED <<bin_t, bin_code, bin_budget>>

\* ------------------------------------------------------------------------
\* Specifications
\* ------------------------------------------------------------------------

QueryIdle == QueryInit(0)
HintsIdle == HintsInit(0)
StoreIdle == StoreInit(0)
IndexIdle == IndexInit(0)
PqIdle == PqInit(FALSE, 0)
BbIdle == BbInit(0)
OidIdle == OidInit({[j \in 1..12 |-> 0]}, TRUE)

CastIdle == CastInit({[j \in 1..12 |-> 0]}, {}, MaxCasts)
DbIdle == DbInit(0)
BinIdle == BinInit(0)
Init == TxInit /\ SaveInit /\ QueryIdle /\ HintsIdle /\ StoreIdle /\ IndexIdle /\ PqIdle /\ BbIdle
    /\ OidIdle /\ CastIdle /\ DbIdle /\ BinIdle

Next ==
    \/ BeginTransaction /\ UNCHANGED <<saveVars, queryVars, hintVars, storeVars, indexVars, pqVars, bbVars,
                 oidVars, castVars, dbVars, binVars>>
    \/ SetCommit /\ UNCHANGED <<saveVars, queryVars, hintVars, storeVars, indexVars, pqVars, bbVars,
                 oidVars, castVars, dbVars, binVars>>
    \/ SetAbort /\ UNCHANGED <<saveVars, queryVars, hintVars, storeVars, indexVars, pqVars, bbVars,
                 oidVars, castVars, dbVars, binVars>>
    \/ Commit /\ UNCHANGED <<saveVars, queryVars, hintVars, storeVars, indexVars, pqVars, bbVars,
                 oidVars, castVars, dbVars, binVars>>
    \/ Abort /\ UNCHANGED <<saveVars, queryVars, hintVars, storeVars, indexVars, pqVars, bbVars,
                 oidVars, castVars, dbVars, binVars>>
    \/ Finish /\ UNCHANGED <<saveVars, queryVars, hintVars, storeVars, indexVars, pqVars, bbVars,
                 oidVars, castVars, dbVars, binVars>>
    \/ Drop /\ UNCHANGED <<saveVars, queryVars, hintVars, storeVars, indexVars, pqVars, bbVars,
                 oidVars, castVars, dbVars, binVars>>

Spec == Init /\ [][Next]_vars

SaveNext ==
    \/ SaveAllCall /\ UNCHANGED <<txVars, queryVars, hintVars, storeVars, indexVars, pqVars, bbVars,
                 oidVars, castVars, dbVars, binVars>>
    \/ SaveAllIterate /\ UNCHANGED <<txVars, queryVars, hintVars, storeVars, indexVars, pqVars, bbVars,
                 oidVars, castVars, dbVars, binVars>>
    \/ SaveAllReturn /\ UNCHANGED <<txVars, queryVars, hintVars, storeVars, indexVars, pqVars, bbVars,
                 oidVars, castVars, dbVars, binVars>>

SpecSave == Init /\ [][SaveNext]_vars

\* The update-operator builders on a Query that starts as Query::new().
UpdateInit == TxInit /\ SaveInit /\ QueryInit(MaxUpdateCalls) /\ HintsIdle /\ StoreIdle /\ IndexIdle /\ PqIdle /\ BbIdle
    /\ OidIdle /\ CastIdle /\ DbIdle /\ BinIdle

UpdateNext ==
    \/ Join /\ UNCHANGED <<txVars, saveVars, hintVars, storeVars, indexVars, pqVars, bbVars,
                 oidVars, castVars, dbVars, binVars>>
    \/ AddToSet /\ UNCHANGED <<txVars, saveVars, hintVars, storeVars, indexVars, pqVars, bbVars,
                 oidVars, castVars, dbVars, binVars>>
    \/ AddToSetAll /\ UNCHANGED <<txVars, saveVars, hintVars, storeVars, indexVars, pqVars, bbVars,
                 oidVars, castVars, dbVars, binVars>>
    \/ Unset /\ UNCHANGED <<txVars, saveVars, hintVars, storeVars, indexVars, pqVars, bbVars,
                 oidVars, castVars, dbVars, binVars>>
    \/ Inc /\ UNCHANGED <<txVars, saveVars, hintVars, storeVars, indexVars, pqVars, bbVars,
                 oidVars, castVars, dbVars, binVars>>
    \/ Set /\ UNCHANGED <<txVars, saveVars, hintVars, storeVars, indexVars, pqVars, bbVars,
                 oidVars, castVars, dbVars, binVars>>
    \/ Upsert /\ UNCHANGED <<txVars, saveVars, hintVars, storeVars, indexVars, pqVars, bbVars,
                 oidVars, castVars, dbVars, binVars>>
    \/ Pull /\ UNCHANGED <<txVars, saveVars, hintVars, storeVars, indexVars, pqVars, bbVars,
                 oidVars, castVars, dbVars, binVars>>
    \/ PullAll /\ UNCHANGED <<txVars, saveVars, hintVars, storeVars, indexVars, pqVars, bbVars,
                 oidVars, castVars, dbVars, binVars>>
    \/ Push /\ UNCHANGED <<txVars, saveVars, hintVars, storeVars, indexVars, pqVars, bbVars,
                 oidVars, castVars, dbVars, binVars>>
    \/ PushAll /\ UNCHANGED <<txVars, saveVars, hintVars, storeVars, indexVars, pqVars, bbVars,
                 oidVars, castVars, dbVars, binVars>>
    \/ Rename /\ UNCHANGED <<txVars, saveVars, hintVars, storeVars, indexVars, pqVars, bbVars,
                 oidVars, castVars, dbVars, binVars>>
    \/ Slice /\ UNCHANGED <<txVars, saveVars, hintVars, storeVars, indexVars, pqVars, bbVars,
                 oidVars, castVars, dbVars, binVars>>
    \/ SliceWithOffset /\ UNCHANGED <<txVars, saveVars, hintVars, storeVars, indexVars, pqVars, bbVars,
                 oidVars, castVars, dbVars, binVars>>

SpecUpdate == UpdateInit /\ [][UpdateNext]_vars

\* The field constraints on a Query that starts as Query::new().
FieldInit == TxInit /\ SaveInit /\ QueryInit(MaxFieldCalls) /\ HintsIdle /\ StoreIdle /\ IndexIdle /\ PqIdle /\ BbIdle
    /\ OidIdle /\ CastIdle /\ DbIdle /\ BinIdle

FieldNext ==
    \/ Field /\ UNCHANGED <<txVars, saveVars, hintVars, storeVars, indexVars, pqVars, bbVars,
                 oidVars, castVars, dbVars, binVars>>
    \/ SubField /\ UNCHANGED <<txVars, saveVars, hintVars, storeVars, indexVars, pqVars, bbVars,
                 oidVars, castVars, dbVars, binVars>>
    \/ Not /\ UNCHANGED <<txVars, saveVars, hintVars, storeVars, indexVars, pqVars, bbVars,
                 oidVars, castVars, dbVars, binVars>>
    \/ CaseInsensitive /\ UNCHANGED <<txVars, saveVars, hintVars, storeVars, indexVars, pqVars, bbVars,
                 oidVars, castVars, dbVars, binVars>>
    \/ Eq /\ UNCHANGED <<txVars, saveVars, hintVars, storeVars, indexVars, pqVars, bbVars,
                 oidVars, castVars, dbVars, binVars>>
    \/ Begin /\ UNCHANGED <<txVars, saveVars, hintVars, storeVars, indexVars, pqVars, bbVars,
                 oidVars, castVars, dbVars, binVars>>
    \/ Between /\ UNCHANGED <<txVars, saveVars, hintVars, storeVars, indexVars, pqVars, bbVars,
                 oidVars, castVars, dbVars, binVars>>
    \/ Gt /\ UNCHANGED <<txVars, saveVars, hintVars, storeVars, indexVars, pqVars, bbVars,
                 oidVars, castVars, dbVars, binVars>>
    \/ Gte /\ UNCHANGED <<txVars, saveVars, hintVars, storeVars, indexVars, pqVars, bbVars,
                 oidVars, castVars, dbVars, binVars>>
    \/ Lt /\ UNCHANGED <<txVars, saveVars, hintVars, storeVars, indexVars, pqVars, bbVars,
                 oidVars, castVars, dbVars, binVars>>
    \/ Lte /\ UNCHANGED <<txVars, saveVars, hintVars, storeVars, indexVars, pqVars, bbVars,
                 oidVars, castVars, dbVars, binVars>>
    \/ Exists /\ UNCHANGED <<txVars, saveVars, hintVars, storeVars, indexVars, pqVars, bbVars,
                 oidVars, castVars, dbVars, binVars>>
    \/ ElemMatch /\ UNCHANGED <<txVars, saveVars, hintVars, storeVars, indexVars, pqVars, bbVars,
                 oidVars, castVars, dbVars, binVars>>
    \/ ContainedIn /\ UNCHANGED <<txVars, saveVars, hintVars, storeVars, indexVars, pqVars, bbVars,
                 oidVars, castVars, dbVars, binVars>>
    \/ NotContainedIn /\ UNCHANGED <<txVars, saveVars, hintVars, storeVars, indexVars, pqVars, bbVars,
                 oidVars, castVars, dbVars, binVars>>
    \/ StrAnd /\ UNCHANGED <<txVars, saveVars, hintVars, storeVars, indexVars, pqVars, bbVars,
                 oidVars, castVars, dbVars, binVars>>
    \/ StrOr /\ UNCHANGED <<txVars, saveVars, hintVars, storeVars, indexVars, pqVars, bbVars,
                 oidVars, castVars, dbVars, binVars>>

SpecField == FieldInit /\ [][FieldNext]_vars

\* The hints builder on hints that start as QueryHints::new().
HintsSpecInit == TxInit /\ SaveInit /\ QueryIdle /\ HintsInit(MaxHintCalls) /\ StoreIdle /\ IndexIdle /\ PqIdle /\ BbIdle
    /\ OidIdle /\ CastIdle /\ DbIdle /\ BinIdle

HintsNext ==
    \/ HintsMax /\ UNCHANGED <<txVars, saveVars, queryVars, storeVars, indexVars, pqVars, bbVars,
                 oidVars, castVars, dbVars, binVars>>
    \/ HintsSkip /\ UNCHANGED <<txVars, saveVars, queryVars, storeVars, indexVars, pqVars, bbVars,
                 oidVars, castVars, dbVars, binVars>>
    \/ HintsOrderBy /\ UNCHANGED <<txVars, saveVars, queryVars, storeVars, indexVars, pqVars, bbVars,
                 oidVars, castVars, dbVars, binVars>>
    \/ HintsField /\ UNCHANGED <<txVars, saveVars, queryVars, storeVars, indexVars, pqVars, bbVars,
                 oidVars, castVars, dbVars, binVars>>
    \/ Desc /\ UNCHANGED <<txVars, saveVars, queryVars, storeVars, indexVars, pqVars, bbVars,
                 oidVars, castVars, dbVars, binVars>>
    \/ Asc /\ UNCHANGED <<txVars, saveVars, queryVars, storeVars, indexVars, pqVars, bbVars,
                 oidVars, castVars, dbVars, binVars>>
    \/ Exclude /\ UNCHANGED <<txVars, saveVars, queryVars, storeVars, indexVars, pqVars, bbVars,
                 oidVars, castVars, dbVars, binVars>>
    \/ Include /\ UNCHANGED <<txVars, saveVars, queryVars, storeVars, indexVars, pqVars, bbVars,
                 oidVars, castVars, dbVars, binVars>>

SpecHints == HintsSpecInit /\ [][HintsNext]_vars

\* The hints builder on hints made by From<Document>, with writes through
\* DerefMut in between.
HintsFromSpecInit ==
    TxInit /\ SaveInit /\ QueryIdle /\ HintsFromInit(MaxHintFromCalls) /\ StoreIdle /\ IndexIdle
    /\ PqIdle /\ BbIdle /\ OidIdle /\ CastIdle /\ DbIdle /\ BinIdle

HintsFromNext ==
    \/ HintsMax /\ UNCHANGED <<txVars, saveVars, queryVars, storeVars, indexVars, pqVars, bbVars,
                 oidVars, castVars, dbVars, binVars>>
    \/ HintsSkip /\ UNCHANGED <<txVars, saveVars, queryVars, storeVars, indexVars, pqVars, bbVars,
                 oidVars, castVars, dbVars, binVars>>
    \/ HintsOrderBy /\ UNCHANGED <<txVars, saveVars, queryVars, storeVars, indexVars, pqVars, bbVars,
                 oidVars, castVars, dbVars, binVars>>
    \/ HintsField /\ UNCHANGED <<txVars, saveVars, queryVars, storeVars, indexVars, pqVars, bbVars,
                 oidVars, castVars, dbVars, binVars>>
    \/ Desc /\ UNCHANGED <<txVars, saveVars, queryVars, storeVars, indexVars, pqVars, bbVars,
                 oidVars, castVars, dbVars, binVars>>
    \/ Asc /\ UNCHANGED <<txVars, saveVars, queryVars, storeVars, indexVars, pqVars, bbVars,
                 oidVars, castVars, dbVars, binVars>>
    \/ Exclude /\ UNCHANGED <<txVars, saveVars, queryVars, storeVars, indexVars, pqVars, bbVars,
                 oidVars, castVars, dbVars, binVars>>
    \/ Include /\ UNCHANGED <<txVars, saveVars, queryVars, storeVars, indexVars, pqVars, bbVars,
                 oidVars, castVars, dbVars, binVars>>
    \/ HintsDerefInsert /\ UNCHANGED <<txVars, saveVars, queryVars, storeVars, indexVars, pqVars, bbVars,
                 oidVars, castVars, dbVars, binVars>>

SpecHintsFrom == HintsFromSpecInit /\ [][HintsFromNext]_vars

\* save and load on a collection that starts empty.
StoreSpecInit == TxInit /\ SaveInit /\ QueryIdle /\ HintsIdle /\ StoreInit(MaxStoreOps) /\ IndexIdle /\ PqIdle /\ BbIdle
    /\ OidIdle /\ CastIdle /\ DbIdle /\ BinIdle

StoreNext ==
    \/ StoreSave /\ UNCHANGED <<txVars, saveVars, queryVars, hintVars, indexVars, pqVars, bbVars,
                 oidVars, castVars, dbVars, binVars>>
    \/ StoreLoad /\ UNCHANGED <<txVars, saveVars, queryVars, hintVars, indexVars, pqVars, bbVars,
                 oidVars, castVars, dbVars, binVars>>

SpecStore == StoreSpecInit /\ [][StoreNext]_vars

\* One Index builder from Collection::index to its consuming method.
IndexSpecInit == TxInit /\ SaveInit /\ QueryIdle /\ HintsIdle /\ StoreIdle /\ IndexInit(MaxIndexCalls) /\ PqIdle /\ BbIdle
    /\ OidIdle /\ CastIdle /\ DbIdle /\ BinIdle

IndexNext ==
    \/ IndexString /\ UNCHANGED <<txVars, saveVars, queryVars, hintVars, storeVars, pqVars, bbVars,
                 oidVars, castVars, dbVars, binVars>>
    \/ IndexNumber /\ UNCHANGED <<txVars, saveVars, queryVars, hintVars, storeVars, pqVars, bbVars,
                 oidVars, castVars, dbVars, binVars>>
    \/ IndexArray /\ UNCHANGED <<txVars, saveVars, queryVars, hintVars, storeVars, pqVars, bbVars,
                 oidVars, castVars, dbVars, binVars>>
    \/ IndexSet /\ UNCHANGED <<txVars, saveVars, queryVars, hintVars, storeVars, pqVars, bbVars,
                 oidVars, castVars, dbVars, binVars>>
    \/ IndexDropAll /\ UNCHANGED <<txVars, saveVars, queryVars, hintVars, storeVars, pqVars, bbVars,
                 oidVars, castVars, dbVars, binVars>>
    \/ IndexDrop /\ UNCHANGED <<txVars, saveVars, queryVars, hintVars, storeVars, pqVars, bbVars,
                 oidVars, castVars, dbVars, binVars>>
    \/ IndexRebuild /\ UNCHANGED <<txVars, saveVars, queryVars, hintVars, storeVars, pqVars, bbVars,
                 oidVars, castVars, dbVars, binVars>>
    \/ IndexOptimize /\ UNCHANGED <<txVars, saveVars, queryVars, hintVars, storeVars, pqVars, bbVars,
                 oidVars, castVars, dbVars, binVars>>

SpecIndex == IndexSpecInit /\ [][IndexNext]_vars

\* One PreparedQuery from Collection::query to its consuming method, and
\* the iteration of the QueryResult of find().
PqSpecInit ==
    TxInit /\ SaveInit /\ QueryIdle /\ HintsIdle /\ StoreIdle /\ IndexIdle /\ PqInit(TRUE, MaxNext)
    /\ BbIdle /\ OidIdle /\ CastIdle /\ DbIdle /\ BinIdle

PqNext ==
    \/ LogOutput /\ UNCHANGED <<txVars, saveVars, queryVars, hintVars, storeVars, indexVars, bbVars,
                 oidVars, castVars, dbVars, binVars>>
    \/ PqCount /\ UNCHANGED <<txVars, saveVars, queryVars, hintVars, storeVars, indexVars, bbVars,
                 oidVars, castVars, dbVars, binVars>>
    \/ PqUpdate /\ UNCHANGED <<txVars, saveVars, queryVars, hintVars, storeVars, indexVars, bbVars,
                 oidVars, castVars, dbVars, binVars>>
    \/ PqFindOne /\ UNCHANGED <<txVars, saveVars, queryVars, hintVars, storeVars, indexVars, bbVars,
                 oidVars, castVars, dbVars, binVars>>
    \/ PqFind /\ UNCHANGED <<txVars, saveVars, queryVars, hintVars, storeVars, indexVars, bbVars,
                 oidVars, castVars, dbVars, binVars>>
    \/ QrNext /\ UNCHANGED <<txVars, saveVars, queryVars, hintVars, storeVars, indexVars, bbVars,
                 oidVars, castVars, dbVars, binVars>>
    \/ QrDrop /\ UNCHANGED <<txVars, saveVars, queryVars, hintVars, storeVars, indexVars, bbVars,
                 oidVars, castVars, dbVars, binVars>>

SpecPq == PqSpecInit /\ [][PqNext]_vars

\* One ejdb-bson document built by append_* calls and then iterated.
BbSpecInit ==
    TxInit /\ SaveInit /\ QueryIdle /\ HintsIdle /\ StoreIdle /\ IndexIdle /\ PqIdle
    /\ BbInit(MaxAppends) /\ OidIdle /\ CastIdle /\ DbIdle /\ BinIdle

BbNext ==
    \/ BbAppend /\ UNCHANGED <<txVars, saveVars, queryVars, hintVars, storeVars, indexVars, pqVars,
                 oidVars, castVars, dbVars, binVars>>
    \/ BbIterate /\ UNCHANGED <<txVars, saveVars, queryVars, hintVars, storeVars, indexVars, pqVars,
                 oidVars, castVars, dbVars, binVars>>

SpecBb == BbSpecInit /\ [][BbNext]_vars

\* The display of one ObjectId.
OidSpecInit ==
    TxInit /\ SaveInit /\ QueryIdle /\ HintsIdle /\ StoreIdle /\ IndexIdle /\ PqIdle /\ BbIdle
    /\ OidInit(OidInputs, FALSE) /\ CastIdle /\ DbIdle /\ BinIdle

OidNext ==
    OidFormat /\ UNCHANGED <<txVars, saveVars, queryVars, hintVars, storeVars, indexVars,
                             pqVars, bbVars, castVars, dbVars, binVars>>

SpecOid == OidSpecInit /\ [][OidNext]_vars

\* Conversions between ObjectId and EjdbObjectId, from either side.
CastSpecInit ==
    TxInit /\ SaveInit /\ QueryIdle /\ HintsIdle /\ StoreIdle /\ IndexIdle /\ PqIdle /\ BbIdle
    /\ OidIdle /\ CastInit(OidInputs, RawInputs, 0) /\ DbIdle /\ BinIdle

CastNext ==
    \/ FromRust /\ UNCHANGED <<txVars, saveVars, queryVars, hintVars, storeVars, indexVars, pqVars, bbVars,
                 oidVars, dbVars, binVars>>
    \/ ToRust /\ UNCHANGED <<txVars, saveVars, queryVars, hintVars, storeVars, indexVars, pqVars, bbVars,
                 oidVars, dbVars, binVars>>

SpecCast == CastSpecInit /\ [][CastNext]_vars

\* Databases opened and dropped, one at a time.
DbSpecInit ==
    TxInit /\ SaveInit /\ QueryIdle /\ HintsIdle /\ StoreIdle /\ IndexIdle /\ PqIdle /\ BbIdle
    /\ OidIdle /\ CastIdle /\ DbInit(MaxOpens) /\ BinIdle

DbNext ==
    \/ OpenWithMode /\ UNCHANGED <<txVars, saveVars, queryVars, hintVars, storeVars, indexVars, pqVars, bbVars,
                 oidVars, castVars, binVars>>
    \/ DatabaseDrop /\ UNCHANGED <<txVars, saveVars, queryVars, hintVars, storeVars, indexVars, pqVars, bbVars,
                 oidVars, castVars, binVars>>

SpecDb == DbSpecInit /\ [][DbNext]_vars

\* Binary subtypes written by append_binary and read back by the iterator.
BinSpecInit ==
    TxInit /\ SaveInit /\ QueryIdle /\ HintsIdle /\ StoreIdle /\ IndexIdle /\ PqIdle /\ BbIdle
    /\ OidIdle /\ CastIdle /\ DbIdle /\ BinInit(MaxBinTrips)

BinNext ==
    \/ BinStore /\ UNCHANGED <<txVars, saveVars, queryVars, hintVars, storeVars, indexVars, pqVars, bbVars,
                 oidVars, castVars, dbVars>>
    \/ BinRead /\ UNCHANGED <<txVars, saveVars, queryVars, hintVars, storeVars, indexVars, pqVars, bbVars,
                 oidVars, castVars, dbVars>>

SpecBin == BinSpecInit /\ [][BinNext]_vars

\* set/set_many and upsert/upsert_many on a Query that starts as Query::new().
SetInit == TxInit /\ SaveInit /\ QueryInit(MaxSetCalls) /\ HintsIdle /\ StoreIdle /\ IndexIdle /\ PqIdle /\ BbIdle
    /\ OidIdle /\ CastIdle /\ DbIdle /\ BinIdle

SetNext ==
    \/ Set /\ UNCHANGED <<txVars, saveVars, hintVars, storeVars, indexVars, pqVars, bbVars,
                 oidVars, castVars, dbVars, binVars>>
    \/ SetMany /\ UNCHANGED <<txVars, saveVars, hintVars, storeVars, indexVars, pqVars, bbVars,
                 oidVars, castVars, dbVars, binVars>>
    \/ Upsert /\ UNCHANGED <<txVars, saveVars, hintVars, storeVars, indexVars, pqVars, bbVars,
                 oidVars, castVars, dbVars, binVars>>
    \/ UpsertMany /\ UNCHANGED <<txVars, saveVars, hintVars, storeVars, indexVars, pqVars, bbVars,
                 oidVars, castVars, dbVars, binVars>>

SpecSet == SetInit /\ [][SetNext]_vars

\* and()/or() next to update operators on a Query that starts as Query::new().
LogicInit == TxInit /\ SaveInit /\ QueryInit(MaxLogicCalls) /\ HintsIdle /\ StoreIdle /\ IndexIdle /\ PqIdle /\ BbIdle
    /\ OidIdle /\ CastIdle /\ DbIdle /\ BinIdle

LogicNext ==
    \/ And /\ UNCHANGED <<txVars, saveVars, hintVars, storeVars, indexVars, pqVars, bbVars,
                 oidVars, castVars, dbVars, binVars>>
    \/ Or /\ UNCHANGED <<txVars, saveVars, hintVars, storeVars, indexVars, pqVars, bbVars,
                 oidVars, castVars, dbVars, binVars>>
    \/ Set /\ UNCHANGED <<txVars, saveVars, hintVars, storeVars, indexVars, pqVars, bbVars,
                 oidVars, castVars, dbVars, binVars>>
    \/ Unset /\ UNCHANGED <<txVars, saveVars, hintVars, storeVars, indexVars, pqVars, bbVars,
                 oidVars, castVars, dbVars, binVars>>

SpecLogic == LogicInit /\ [][LogicNext]_vars

\* ------------------------------------------------------------------------
\* Properties
\* ------------------------------------------------------------------------

\* C1: begin_transaction() returns Ok(Transaction) exactly when the native
\* transaction-begin call reported success, and an error exactly when it
\* reported failure.
C1_BeginOkIffNativeSuccess ==
    begin_ret # "none" =>
        /\ (begin_ret = "Ok") <=> (begin_native = "true")
        /\ (begin_ret = "Err") <=> (begin_native = "false")

\* The most recent of set_commit()/set_abort() in a guard's call log.
RECURSIVE LastSet(_)
LastSet(log) ==
    IF log = <<>> THEN "none"
    ELSE IF log[Len(log)] \in {"set_commit", "set_abort"} THEN log[Len(log)]
    ELSE LastSet(SubSeq(log, 1, Len(log) - 1))

\* The native call the documentation promises for a guard ended by this log.
PromisedEnd(log) ==
    LET op == log[Len(log)] IN
      IF op = "commit" THEN "commit"
      ELSE IF op = "abort" THEN "abort"
      ELSE IF LastSet(log) = "set_commit" THEN "commit" ELSE "abort"

\* C2: a guard that is dropped or finish()ed issues a native abort unless the
\* most recent of set_commit()/set_abort() was set_commit(), and then a native
\* commit; a fresh guard aborts; commit() always issues a native commit and
\* abort() always a native abort.
C2_EndFollowsFlag ==
    tx_state = "dropped" =>
        {tx_native[i] : i \in DOMAIN tx_native} = {PromisedEnd(api_log)}

\* A guard whose flag was set to abort, then to commit, and then dropped,
\* and which committed.
C2_Witness ==
    /\ tx_state = "dropped"
    /\ Len(api_log) >= 3
    /\ api_log[Len(api_log)] = "drop"
    /\ \E i, j \in DOMAIN api_log :
          i < j /\ api_log[i] = "set_abort" /\ api_log[j] = "set_commit"
    /\ LastSet(api_log) = "set_commit"
    /\ tx_native = <<"commit">>

\* C3: save_all saves in input order and stops at the first failing save; it
\* then returns PartialSave with exactly the ids of the documents before the
\* failing one, in input order, and passes no later document to save; with
\* no failure it returns one id per document, in input order.
C3_SaveAllPartial ==
    sa_pc = "done" =>
        LET k == Len(save_calls)
            failed == {j \in 1..k : ~save_calls[j].ok}
        IN /\ \A j \in 1..k : save_calls[j].doc = j
           /\ sa_ret.kind \in {"Ok", "PartialSave"}
           /\ (sa_ret.kind = "PartialSave") <=> (failed # {})
           /\ sa_ret.kind = "PartialSave" =>
                 /\ failed = {k}
                 /\ sa_ret.ids = [j \in 1..(k - 1) |-> save_calls[j].id]
           /\ sa_ret.kind = "Ok" =>
                 /\ k = Len(sa_docs)
                 /\ sa_ret.ids = [j \in 1..k |-> save_calls[j].id]

\* save_all returned PartialSave on the second of three documents, with the
\* id of the first.
C3_Witness ==
    /\ sa_pc = "done"
    /\ Len(sa_docs) = 3
    /\ sa_ret.kind = "PartialSave"
    /\ Len(save_calls) = 2
    /\ Len(sa_ret.ids) = 1

\* The operator key each update builder writes under, and the value it stores
\* for its field, as the documentation and the tests of query.rs give them.
OpKeyOf(m) ==
    CASE m = "set" -> "$set"
      [] m = "upsert" -> "$upsert"
      [] m = "inc" -> "$inc"
      [] m = "unset" -> "$unset"
      [] m = "push" -> "$push"
      [] m = "push_all" -> "$pushAll"
      [] m = "pull" -> "$pull"
      [] m = "pull_all" -> "$pullAll"
      [] m \in {"add_to_set", "add_to_set_all"} -> "$addToSet"
      [] m = "rename" -> "$rename"
      [] m \in {"join", "slice", "slice_with_offset"} -> "$do"
      [] OTHER -> "none"

OpKeys == {"$set", "$upsert", "$inc", "$unset", "$push", "$pushAll", "$pull",
           "$pullAll", "$addToSet", "$rename", "$do"}

StoredValue(c) ==
    CASE c.m = "join" -> Doc(<< <<"$join", c.a>> >>)
      [] c.m \in {"slice", "slice_with_offset"} -> Doc(<< <<"$slice", c.a>> >>)
      [] OTHER -> c.a

\* A document read as a map, its order left out.
AsMap(d) == [keys |-> DocKeys(d), pairs |-> {<<d[j][1], d[j][2]>> : j \in DOMAIN d}]

\* The operator key written by each call of the log.
LogKeys == [j \in DOMAIN q_log |-> OpKeyOf(q_log[j].m)]

TopLevelCount(K) == Cardinality({j \in DOMAIN q : q[j][1] = K})

\* C4: after any sequence of update-operator builder calls, each operator key
\* appears at most once at the top level and maps to a single sub-document
\* holding every distinct field named by the calls for that operator.
C4_OneSubDocumentPerOperator ==
    LET keyAt == LogKeys IN
      /\ Len(q) = Cardinality(DocKeys(q))
      /\ \A K \in {keyAt[j] : j \in DOMAIN q_log} :
            LET named == {q_log[j].f : j \in {i \in DOMAIN q_log : keyAt[i] = K}} IN
              /\ K \in OpKeys
              /\ TopLevelCount(K) = 1
              /\ DocGet(q, K).t = "doc"
              /\ DocKeys(DocGet(q, K).d) = named
              /\ Len(DocGet(q, K).d) = Cardinality(named)

\* inc on one field and then on another: one $inc holding both fields.
C4_Witness ==
    /\ Len(q_log) = 2
    /\ q_log[1].m = "inc" /\ q_log[2].m = "inc"
    /\ q_log[1].f = "a" /\ q_log[2].f = "b"
    /\ TopLevelCount("$inc") = 1
    /\ DocKeys(DocGet(q, "$inc").d) = {"a", "b"}

\* C5: last write wins at (operator key, field) granularity: every field of
\* an operator's sub-document holds the value of the latest call that wrote
\* that field under that operator key, whichever method made the call, so a
\* later write to one field leaves every other field as it was.
C5_LastWriteWins ==
    LET keyAt == LogKeys IN
      \A j \in DOMAIN q_log :
          LET K == keyAt[j]
              f == q_log[j].f
              isLast == \A i \in DOMAIN q_log : (i > j) => ~(keyAt[i] = K /\ q_log[i].f = f)
          IN isLast =>
               /\ contains_key(q, K)
               /\ contains_key(DocGet(q, K).d, f)
               /\ DocGet(DocGet(q, K).d, f) = StoredValue(q_log[j])

\* join on one field, slice_with_offset on another, then slice on the first:
\* $do holds the slice for the first field and still the other field's value.
C5_Witness ==
    /\ Len(q_log) = 3
    /\ q_log[1].m = "join" /\ q_log[2].m = "slice_with_offset" /\ q_log[3].m = "slice"
    /\ q_log[1].f = "a" /\ q_log[2].f = "b" /\ q_log[3].f = "a"
    /\ AsMap(DocGet(q, "$do").d).pairs =
          { <<"a", Doc(<< <<"$slice", I64(2)>> >>)>>,
            <<"b", Doc(<< <<"$slice", Arr(<<I64(0), I64(2)>>)>> >>)>> }

\* The document the log promises under key K for the pair of builders
\* `single` (set or upsert) and `many` (set_many or upsert_many): the argument
\* of the latest `many` call (nothing when there is none), with the fields of
\* the later `single` calls written over it.
PromisedMap(single, many) ==
    LET manys == {j \in DOMAIN q_log : q_log[j].m = many}
        base == IF manys = {} THEN 0 ELSE CHOOSE j \in manys : \A i \in manys : i <= j
        later == {j \in DOMAIN q_log : j > base /\ q_log[j].m = single}
        baseDoc == IF base = 0 THEN DocNew ELSE q_log[base].a.d
        keys == DocKeys(baseDoc) \cup {q_log[j].f : j \in later}
        val(k) == LET js == {j \in later : q_log[j].f = k}
                  IN IF js = {} THEN DocGet(baseDoc, k)
                     ELSE q_log[CHOOSE j \in js : \A i \in js : i <= j].a
    IN [keys |-> keys, pairs |-> {<<k, val(k)>> : k \in keys}]

WroteUnder(single, many) == \E j \in DOMAIN q_log : q_log[j].m \in {single, many}

\* C6: set_many(doc) makes $set exactly doc, discarding every entry earlier
\* set()/set_many() calls contributed, and later set(k, v) calls merge into
\* that document; upsert_many/upsert do the same on $upsert.
C6_SetManyReplaces ==
    /\ WroteUnder("set", "set_many") =>
          /\ TopLevelCount("$set") = 1
          /\ DocGet(q, "$set").t = "doc"
          /\ AsMap(DocGet(q, "$set").d) = PromisedMap("set", "set_many")
          /\ Len(DocGet(q, "$set").d) = Cardinality(DocKeys(DocGet(q, "$set").d))
          /\ q_log[Len(q_log)].m = "set_many" => DocGet(q, "$set") = q_log[Len(q_log)].a
    /\ WroteUnder("upsert", "upsert_many") =>
          /\ TopLevelCount("$upsert") = 1
          /\ DocGet(q, "$upsert").t = "doc"
          /\ AsMap(DocGet(q, "$upsert").d) = PromisedMap("upsert", "upsert_many")
          /\ Len(DocGet(q, "$upsert").d) = Cardinality(DocKeys(DocGet(q, "$upsert").d))
          /\ q_log[Len(q_log)].m = "upsert_many" =>
                DocGet(q, "$upsert") = q_log[Len(q_log)].a

\* set, then set_many with a document that lacks the field set before, then
\* set of a third field: $set is the set_many document plus the last field.
C6_Witness ==
    /\ Len(q_log) = 3
    /\ q_log[1] = [m |-> "set", f |-> "a", a |-> I32(1)]
    /\ q_log[2] = [m |-> "set_many", f |-> "", a |-> Doc(<< <<"b", I32(1)>>, <<"c", I32(2)>> >>)]
    /\ q_log[3] = [m |-> "set", f |-> "a", a |-> I32(2)]
    /\ DocGet(q, "$set").d = << <<"b", I32(1)>>, <<"c", I32(2)>>, <<"a", I32(2)>> >>

\* The value a terminal method constrains the field with, as the table of
\* operators gives it: eq the bare value, every other method a one-entry
\* document under its operator key.
TermKey(m) ==
    CASE m = "begin" -> "$begin"
      [] m = "between" -> "$bt"
      [] m = "gt" -> "$gt"
      [] m = "gte" -> "$gte"
      [] m = "lt" -> "$lt"
      [] m = "lte" -> "$lte"
      [] m = "exists" -> "$exists"
      [] m = "elem_match" -> "$elemMatch"
      [] m = "contained_in" -> "$in"
      [] m = "not_contained_in" -> "$nin"
      [] m = "str_and" -> "$strand"
      [] m = "str_or" -> "$stror"
      [] OTHER -> "none"

TermValue(c) == IF c.m = "eq" THEN c.a ELSE Doc(<< <<TermKey(c.m), c.a>> >>)

\* The value wrapped once per link, from link i of the chain inwards.
RECURSIVE WrapFrom(_, _, _)
WrapFrom(chain, i, v) ==
    IF i > Len(chain) THEN v
    ELSE Doc(<< <<chain[i], WrapFrom(chain, i + 1, v)>> >>)

\* A step in which a terminal method consumes the chain fc.
TerminalStep == fc # <<>> /\ fc' = <<>>

LastCall == q_log[Len(q_log)]

\* Every entry of document `part` stands in document `whole` with its value.
Holds(whole, part) ==
    \A j \in DOMAIN part :
        /\ contains_key(whole, part[j][1])
        /\ DocGet(whole, part[j][1]) = part[j][2]

\* C7: a terminal method called on a chain field(n1) followed by .field(ni) /
\* .not() / .case_insensitive() links wraps its value bottom-up, one
\* single-key document per link, and puts the result under n1 of the root
\* query: it becomes the value at n1, or, when n1 already holds a document
\* and the result is a document, its entries are written into that document.
C7_ChainWrapsBottomUp ==
    [][TerminalStep =>
         LET n1 == fc[1]
             w == WrapFrom(fc, 2, TermValue(LastCall'))
         IN /\ contains_key(q', n1)
            /\ IF w.t = "doc" /\ contains_key(q, n1) /\ DocGet(q, n1).t = "doc"
               THEN /\ DocGet(q', n1).t = "doc"
                    /\ Holds(DocGet(q', n1).d, w.d)
               ELSE DocGet(q', n1) = w]_vars

\* field("a").field("b").field("c").eq(1) on a new query: {a: {b: {c: 1}}}.
C7_Witness ==
    /\ fc = <<>>
    /\ Len(q_log) = 4
    /\ q_log[4].m = "eq"
    /\ q = << <<"a", Doc(<< <<"b", Doc(<< <<"c", I32(1)>> >>)>> >>)>> >>

\* C8: operator constraints applied to one field through separate .field(f)
\* chains are merged into one sub-document at f; a later constraint whose
\* operator key is already present at f overwrites that entry only and
\* keeps the others, and no other field of the query changes.
C8_OperatorsMergeAtField ==
    [][(TerminalStep /\ Len(fc) = 1 /\ LastCall'.m # "eq"
          /\ contains_key(q, fc[1]) /\ DocGet(q, fc[1]).t = "doc") =>
         LET f == fc[1]
             op == TermKey(LastCall'.m)
             old == DocGet(q, f).d
             new == DocGet(q', f).d
         IN /\ DocGet(q', f).t = "doc"
            /\ DocKeys(new) = DocKeys(old) \cup {op}
            /\ Len(new) = Cardinality(DocKeys(new))
            /\ DocGet(new, op) = LastCall'.a
            /\ \A k \in DocKeys(old) \ {op} : DocGet(new, k) = DocGet(old, k)
            /\ DocKeys(q') = DocKeys(q)
            /\ \A k \in DocKeys(q) \ {f} : DocGet(q', k) = DocGet(q, k)]_vars

\* field("a").gt(1).field("a").lt(2).field("a").gt(2): {a: {$lt: 2, $gt: 2}}.
C8_Witness ==
    /\ fc = <<>>
    /\ Len(q_log) = 6
    /\ q_log[2] = [m |-> "gt", f |-> "", a |-> I32(1)]
    /\ q_log[4] = [m |-> "lt", f |-> "", a |-> I32(2)]
    /\ q_log[6] = [m |-> "gt", f |-> "", a |-> I32(2)]
    /\ q_log[1].f = "a" /\ q_log[3].f = "a" /\ q_log[5].f = "a"
    /\ Len(q) = 1
    /\ AsMap(DocGet(q, "a").d).pairs = { <<"$gt", I32(2)>>, <<"$lt", I32(2)>> }

\* C9: q.field(f).eq(v) yields a query that maps f to exactly v, whatever q
\* held at f before, also when v is a document and q maps f to a document.
C9_EqStoresBareValue ==
    (/\ fc = <<>>
     /\ Len(q_log) >= 2
     /\ q_log[Len(q_log)].m = "eq"
     /\ q_log[Len(q_log) - 1].m = "field")
    => /\ contains_key(q, q_log[Len(q_log) - 1].f)
       /\ DocGet(q, q_log[Len(q_log) - 1].f) = q_log[Len(q_log)].a

\* The sub-document the log promises under a hint key: each field named by
\* a call of method `plus` or `minus` maps to 1 when the latest of them for
\* that field was `plus`, and to -1 when it was `minus`.
PromisedHint(plus, minus) ==
    LET js == {j \in DOMAIN h_log : h_log[j].m \in {plus, minus}}
        last(f) == CHOOSE j \in js :
                       h_log[j].f = f /\ \A i \in js : h_log[i].f = f => i <= j
    IN {<<f, I32(IF h_log[last(f)].m = plus THEN 1 ELSE -1)>> : f \in {h_log[j].f : j \in js}}

\* What the log promises under $max / $skip: the count of the latest call.
PromisedCount(m) ==
    LET js == {j \in DOMAIN h_log : h_log[j].m = m}
    IN I64(h_log[CHOOSE j \in js : \A i \in js : i <= j].n)

HintHolds(key, plus, minus) ==
    IF PromisedHint(plus, minus) = {}
    THEN ~contains_key(h, key)
    ELSE /\ contains_key(h, key)
         /\ DocGet(h, key).t = "doc"
         /\ AsMap(DocGet(h, key).d).pairs = PromisedHint(plus, minus)
         /\ Len(DocGet(h, key).d) = Cardinality(PromisedHint(plus, minus))

CountHolds(key, m) ==
    IF \E j \in DOMAIN h_log : h_log[j].m = m
    THEN contains_key(h, key) /\ DocGet(h, key) = PromisedCount(m)
    ELSE ~contains_key(h, key)

\* C10: from QueryHints::new(), any sequence of order_by(f).asc()/desc() calls
\* leaves exactly one $orderBy sub-document mapping each named field to the
\* direction of its latest call (1 ascending, -1 descending);
\* field(f).include()/exclude() does the same under $fields (1, -1);
\* max(n)/skip(n) keep only the value of the latest call.
C10_HintsLastCallWins ==
    /\ ~h_panic
    /\ Len(h) = Cardinality(DocKeys(h))
    /\ HintHolds("$orderBy", "asc", "desc")
    /\ HintHolds("$fields", "include", "exclude")
    /\ CountHolds("$max", "max")
    /\ CountHolds("$skip", "skip")

\* order_by("a").asc(), order_by("b").desc(), order_by("a").desc():
\* $orderBy maps a to -1 and b to -1.
C10_Witness ==
    /\ Len(h_log) = 3
    /\ h_log[1] = [m |-> "asc", f |-> "a", n |-> 0]
    /\ h_log[2] = [m |-> "desc", f |-> "b", n |-> 0]
    /\ h_log[3] = [m |-> "desc", f |-> "a", n |-> 0]
    /\ AsMap(DocGet(h, "$orderBy").d).pairs = { <<"a", I32(-1)>>, <<"b", I32(-1)>> }
    /\ Len(h) = 1

\* The successful saves before call j that returned the id call j names.
SavesBefore(j) ==
    {i \in 1..(j - 1) : st_log[i].op = "save" /\ st_log[i].ok /\ st_log[i].id = st_log[j].id}

LatestSaveBefore(j) == CHOOSE i \in SavesBefore(j) : \A k \in SavesBefore(j) : k <= i

\* C11: after save(d) returned id, load(id) returns Some(d') where d' is d
\* with _id set to id, d taken from the latest save under that id (an earlier
\* document saved under the id is replaced entirely); a document carrying an
\* ObjectId _id is saved under that id. The load answers so whenever the
\* native load and the decoding do not fail.
C11_LoadReturnsSaved ==
    /\ \A j \in DOMAIN st_log :
         (st_log[j].op = "save" /\ st_log[j].ok /\ DocOid(st_log[j].d) # 0)
         => st_log[j].id = DocOid(st_log[j].d)
    /\ \A j \in DOMAIN st_log :
         (/\ st_log[j].op = "load"
          /\ SavesBefore(j) # {}
          /\ st_log[j].native_ok
          /\ st_log[j].codec_ok)
         => LET d == st_log[LatestSaveBefore(j)].d
                want == DocInsert(d, "_id", Oid(st_log[j].id))
            IN /\ st_log[j].ok
               /\ st_log[j].some
               /\ AsMap(st_log[j].doc).pairs = AsMap(want).pairs
               /\ Len(st_log[j].doc) = Len(want)

\* Two documents saved under id 1, the second replacing the first, then
\* load(1) answers the second with its _id.
C11_Witness ==
    /\ Len(st_log) = 3
    /\ st_log[1].op = "save" /\ st_log[1].ok
    /\ st_log[1].d = << <<"_id", Oid(1)>>, <<"name", Str("Foo")>> >>
    /\ st_log[2].op = "save" /\ st_log[2].ok
    /\ st_log[2].d = << <<"count", I32(2)>>, <<"_id", Oid(1)>> >>
    /\ st_log[3].op = "load" /\ st_log[3].id = 1 /\ st_log[3].ok /\ st_log[3].some
    /\ AsMap(st_log[3].doc).pairs = { <<"_id", Oid(1)>>, <<"count", I32(2)>> }

\* C12: load(id) returns Ok(None) whenever no record with that id is in the
\* collection and the native load itself does not fail, whatever ran before
\* on the handle, failed calls that left an error code included.
C12_LoadAbsentIsNone ==
    \A j \in DOMAIN st_log :
        (/\ st_log[j].op = "load"
         /\ SavesBefore(j) = {}
         /\ st_log[j].native_ok)
        => st_log[j].ok /\ ~st_log[j].some

\* The consuming method of the builder, once it has run.
IndexConsumer == idx_log[Len(idx_log)]

IndexTyped == \E j \in 1..(Len(idx_log) - 1) : idx_log[j] \in {"string", "number", "array"}

\* C13: set(), drop(), rebuild() and optimize() panic, before any native
\* call, when none of string()/number()/array() was called on the builder,
\* and do not panic when one was; drop_all() never panics.
C13_IndexTypeRequired ==
    idx_out # "none" =>
        IF IndexConsumer = "drop_all"
        THEN idx_out # "panic"
        ELSE /\ ~IndexTyped => (idx_out = "panic" /\ idx_native = <<>>)
             /\ IndexTyped => idx_out # "panic"

\* drop() on a builder with no type panics without a native call.
C13_Witness ==
    /\ idx_log = <<"drop">>
    /\ idx_out = "panic"
    /\ idx_native = <<>>

\* The results next() gave before its first None (all of them when it has
\* not given None yet).
BeforeNone ==
    IF \E j \in DOMAIN qr_yield : qr_yield[j] = "none"
    THEN (CHOOSE j \in DOMAIN qr_yield :
              qr_yield[j] = "none" /\ \A i \in 1..(j - 1) : qr_yield[i] # "none") - 1
    ELSE Len(qr_yield)

\* C14: the QueryResult of find() yields exactly count() items before its
\* first None, count() being the count the native execution reported.
C14_ResultYieldsCount ==
    (pq_method = "find" /\ qr.live) =>
        /\ qr.total = pq_ret.count
        /\ BeforeNone <= qr.total
        /\ (\E j \in DOMAIN qr_yield : qr_yield[j] = "none") => BeforeNone = qr.total

\* find() reported two records; next() gave two items, then None.
C14_Witness ==
    /\ pq_method = "find" /\ qr.live
    /\ qr.total = 2
    /\ qr_yield = <<"item", "item", "none">>

\* C15: count() and update() return an error whenever the native query
\* execution fails, as find() and find_one() do.
C15_CountReportsNativeFailure ==
    (/\ pq_pc = "returned"
     /\ \E j \in DOMAIN pq_events : pq_events[j] = "ejdbqryexecute"
     /\ ~pq_native_ok)
    => ~pq_ret.ok

\* C16: the log target receives bytes only after ejdbqryexecute has
\* returned, and nothing when execute fails at or before the execution.
C16_LogAfterExecution ==
    /\ log_target # <<>> =>
         /\ pq_log_out
         /\ \E i, j \in DOMAIN pq_events :
              i < j /\ pq_events[i] = "ejdbqryexecute" /\ pq_events[j] = "write"
    /\ (/\ pq_pc = "returned"
        /\ ~pq_ret.ok
        /\ pq_ret.stage \in {"encode_query", "ejdbcreatequery2", "encode_hints",
                              "ejdbqueryhints", "ejdbqryexecute"})
       => log_target = <<>>

\* find() with a log target: the execution succeeded and the log was written.
C16_Witness ==
    /\ pq_method = "find" /\ pq_ret.ok
    /\ pq_events = <<"encode_query", "ejdbcreatequery2", "ejdbqryexecute", "write">>
    /\ log_target = <<"log">>

\* The BsonIteratorItem variant of the type each append_* method appends.
VariantOf(m) ==
    CASE m = "append_oid" -> "Oid"
      [] m = "append_int" -> "Int"
      [] m = "append_long" -> "Long"
      [] m = "append_double" -> "Double"
      [] m = "append_string" -> "String"
      [] m = "append_code" -> "Code"
      [] m = "append_code_with_scope" -> "CodeWithScope"
      [] m = "append_symbol" -> "Symbol"
      [] m = "append_binary" -> "Binary"
      [] m = "append_bool" -> "Bool"
      [] m = "append_null" -> "Null"
      [] m = "append_undefined" -> "Undefined"
      [] m = "append_bson" -> "Object"
      [] m = "append_timestamp" -> "Timestamp"
      [] m = "append_date" -> "Date"

\* C17: for a document built by any sequence of append_* calls, iter()
\* yields exactly the appended (key, value) pairs, in append order, each as
\* the variant of the type it was appended with, string payloads without
\* the trailing zero byte.
C17_IterYieldsAppended ==
    (bb_iterated /\ \A j \in DOMAIN bb_log : ~HasZero(bb_log[j].key)) =>
        /\ bb_panic = ""
        /\ bb_items = [j \in DOMAIN bb_log |->
                          [key |-> bb_log[j].key, variant |-> VariantOf(bb_log[j].m),
                           sub |-> bb_log[j].sub, v |-> bb_log[j].v]]

\* C18: appending an entry whose key holds a zero byte fails with an error
\* value: no panic, no truncated key stored, the document left without the
\* entry.
C18_ZeroKeyIsError ==
    \A j \in DOMAIN bb_log :
        HasZero(bb_log[j].key) =>
            /\ bb_panic # "append"
            /\ \A i \in DOMAIN bb : bb[i].key # CStr_to_bytes(bb_log[j].key)

\* The value of a lowercase hexadecimal digit.
HexValue ==
    [c \in {"0", "1", "2", "3", "4", "5", "6", "7", "8", "9", "a", "b", "c", "d", "e", "f"} |->
        CASE c = "0" -> 0 [] c = "1" -> 1 [] c = "2" -> 2 [] c = "3" -> 3
          [] c = "4" -> 4 [] c = "5" -> 5 [] c = "6" -> 6 [] c = "7" -> 7
          [] c = "8" -> 8 [] c = "9" -> 9 [] c = "a" -> 10 [] c = "b" -> 11
          [] c = "c" -> 12 [] c = "d" -> 13 [] c = "e" -> 14 [] c = "f" -> 15]

\* C19: the text form of a 12-byte id is exactly 24 characters from
\* [0-9a-f], two per byte in byte order, high nibble first; the bytes
\* 0x00..0x0b give "000102030405060708090a0b".
C19_OidHex ==
    oid_done =>
        /\ Len(oid_text) = 24
        /\ \A j \in 1..24 : oid_text[j] \in DOMAIN HexValue
        /\ \A j \in 1..12 :
             16 * HexValue[oid_text[2 * j - 1]] + HexValue[oid_text[2 * j]] = oid_in[j]
        /\ oid_in = [j \in 1..12 |-> j - 1] =>
             oid_text = <<"0", "0", "0", "1", "0", "2", "0", "3", "0", "4", "0", "5",
                          "0", "6", "0", "7", "0", "8", "0", "9", "0", "a", "0", "b">>

\* The id of bytes 0x00..0x0b has been displayed.
C19_Witness ==
    /\ oid_done
    /\ oid_in = [j \in 1..12 |-> j - 1]
    /\ oid_text[22] = "a" /\ oid_text[24] = "b"

\* The hint key a finishing call writes under.
HintKeyOf(m) == IF m \in {"asc", "desc"} THEN "$orderBy" ELSE "$fields"

\* C20: on every QueryHints the public API can produce (new, builder calls,
\* From<Document>, writes through DerefMut), order_by(f).asc()/desc() and
\* field(f).include()/exclude() return normally and leave the hint key
\* mapped to a sub-document that contains f; unreachable!() is never run.
C20_AddHintAlwaysReturns ==
    [][h_pending # NoPending /\ h_pending' = NoPending =>
         /\ ~h_panic'
         /\ contains_key(h', HintKeyOf(h_log'[Len(h_log')].m))
         /\ DocGet(h', HintKeyOf(h_log'[Len(h_log')].m)).t = "doc"
         /\ contains_key(DocGet(h', HintKeyOf(h_log'[Len(h_log')].m)).d, h_pending.f)]_vars


\* The key and()/or() write: $and for and, $or for or.
LogicKeyOf(m) == IF m = "and" THEN "$and" ELSE "$or"

\* The entries of document d under keys other than K, in their order.
Others(d, K) == SelectSeq(d, LAMBDA e : e[1] # K)

\* C21: a call of and(qs) / or(qs) leaves $and / $or holding exactly the array
\* of the given sub-query documents in the given order, whatever array an
\* earlier and()/or() call stored there, and leaves every other top-level
\* entry of the query as it was.
C21_AndOrReplace ==
    [][(Len(q_log') = Len(q_log) + 1 /\ q_log'[Len(q_log')].m \in {"and", "or"}) =>
          LET call == q_log'[Len(q_log')]
              K == LogicKeyOf(call.m)
              stored == DocGet(q', K)
          IN /\ Cardinality({j \in DOMAIN q' : q'[j][1] = K}) = 1
             /\ stored.t = "arr"
             /\ Len(stored.d) = Len(call.a.d)
             /\ \A j \in DOMAIN stored.d :
                    /\ stored.d[j][2].t = "doc"
                    /\ stored.d[j][2] = call.a.d[j][2]
             /\ Others(q', K) = Others(q, K)]_vars

\* and() called twice with different lists, a $set entry in between: $and
\* holds the second list alone and $set is still there.
C21_Witness ==
    /\ Len(q_log) = 3
    /\ q_log[1].m = "and" /\ Len(q_log[1].a.d) = 2
    /\ q_log[2].m = "set"
    /\ q_log[3].m = "and" /\ Len(q_log[3].a.d) = 1
    /\ Len(DocGet(q, "$and").d) = 1
    /\ contains_key(q, "$set")

\* C22: from_rust then to_rust gives back every ObjectId byte for byte, and
\* to_rust then from_rust gives back every native id byte for byte; after one
\* conversion each byte holds the same 8 bits (equal modulo 2^8) in its
\* position and lies in the range of its type.
C22_OidRoundTrip ==
    /\ cast_steps = 2 => cast_cur = cast_in
    /\ cast_steps = 1 =>
          /\ Len(cast_cur) = 12
          /\ \A j \in 1..12 :
                /\ (cast_cur[j] - cast_in[j]) % 256 = 0
                /\ IF cast_kind = "ejdb" THEN cast_cur[j] \in -128..127
                                         ELSE cast_cur[j] \in 0..255

\* An ObjectId with bytes on both sides of 0x80 has gone through from_rust
\* and to_rust.
C22_Witness ==
    /\ cast_steps = 2
    /\ cast_kind = "rust"
    /\ cast_in[1] = 255
    /\ \E j \in 1..12 : cast_in[j] < 128
    /\ cast_cur = cast_in

\* C23: a Transaction guard issues exactly one native commit-or-abort call
\* over its lifetime: none while it is live, and one once it has been
\* dropped, whether by commit(), abort(), finish() or going out of scope, and
\* whatever the native call reported.
C23_OneNativeEnd ==
    /\ tx_state = "live" => tx_native = <<>>
    /\ tx_state = "dropped" =>
          /\ Len(tx_native) = 1
          /\ tx_native[1] \in {"commit", "abort"}

\* commit() after set_abort(): the native commit failed, the guard was then
\* dropped, and one native call was made.
C23_Witness ==
    /\ tx_state = "dropped"
    /\ api_log = <<"set_abort", "commit">>
    /\ tx_ret = "Err"
    /\ tx_native = <<"commit">>

\* C24: every non-null result list ejdbqryexecute returned is disposed
\* exactly once: never more disposals than lists, and once the consuming
\* method has returned and no QueryResult is held any more, as many
\* disposals as lists.
C24_ResultDisposedOnce ==
    /\ pq_disposed <= pq_made
    /\ (pq_pc = "returned" /\ ~qr.live) => pq_disposed = pq_made

\* C25: every native handle ejdbnew allocated in open_with_mode is released
\* exactly once: never more ejdbdel calls than handles, and whenever no
\* Database is held (open_with_mode returned an error, or the Database was
\* dropped) as many ejdbdel calls as handles.
C25_HandleReleasedOnce ==
    /\ db_del <= db_new
    /\ ~db_live => db_del = db_new

\* C26: for every BsonBinaryType t, from_i8(t.to_i8()) is Some(t): reading
\* back the subtype byte of a binary entry gives the type it was appended
\* with and never the None that unwrap() panics on.
C26_BinaryTypeRoundTrip ==
    \A j \in DOMAIN bin_log :
        /\ bin_log[j].back # "None"
        /\ bin_log[j].back = bin_log[j].t

\* The calls of next() that yielded an item (Some(Ok) or Some(Err)).
Yielded == {j \in DOMAIN qr_yield : qr_yield[j] # "none"}

\* C27: the cursor of the QueryResult of find() equals the number of items
\* next() has yielded (0 at the start, one more for each item, unchanged by
\* a None), never exceeds the number of native result items, and no item
\* follows a None.
C27_CursorMonotone ==
    (pq_method = "find" /\ pq_ret.ok) =>
        /\ qr.current = Cardinality(Yielded)
        /\ qr.current >= 0 /\ qr.current <= qr.len
        /\ \A i, j \in DOMAIN qr_yield : (i < j /\ qr_yield[i] = "none") => qr_yield[j] = "none"

\* Two records: an item, an item that failed to decode, then None twice,
\* the cursor resting at 2.
C27_Witness ==
    /\ pq_method = "find" /\ pq_ret.ok
    /\ qr.len = 2
    /\ qr_yield = <<"item", "err", "none", "none">>
    /\ qr.current = 2

====
